---- MODULE Spec2Model ----
(***************************************************************************)
(* A model of the dataset build core of anemoi-datasets:                   *)
(*   create/loaders.py    InitialiserLoader, ContentLoader,                *)
(*                        StatisticsAdder, GenericAdditionsLoader          *)
(*   create/persistent.py PersistentDict                                   *)
(* Worker processes share the array store, the completion registry and the *)
(* partial-statistics store, and may be killed between any two statements. *)
(***************************************************************************)
EXTENDS Integers, Sequences, FiniteSets, TLC

(***************************************************************************)
(* Bounds of the model.                                                    *)
(***************************************************************************)
NGroups == 4
GroupLen == 2
NWorkers == 2
MaxParts == 2
MaxRuns == 2
MaxFaults == 1
MaxPuts == 3
MaxStoreCrashes == 1
NADates == 3
MaxKeyLen == 2
MaxRecords == 3
MaxFinalise == 1
MaxAddRuns == 2
MaxSide == 4
MaxEdge == 2
MaxN == 5
NSDates == 4

Workers == 1..NWorkers
GroupIds == 0..(NGroups - 1)
NDates == NGroups * GroupLen
Dates == 0..(NDates - 1)

\* The value the array store holds where nothing was written (zarr fill value).
Fill == 0
\* A NaN delivered by the input provider.
NaN == -1

Min2(a, b) == IF a <= b THEN a ELSE b

(***************************************************************************)
(* Groups of the configuration: the ordered groups of dates, and the data  *)
(* the input provider holds for a date.                                    *)
(***************************************************************************)
GroupDates(g) == [i \in 1..GroupLen |-> g * GroupLen + (i - 1)]

Val(d) == d + 1

SeqRange(s) == {s[i] : i \in DOMAIN s}

(***************************************************************************)
(* ChunkFilter(parts="i/n", total): contiguous near-equal partitions of    *)
(* range(total), the remainder given to the earliest partitions.           *)
(***************************************************************************)
PartSize(i, n, total) == (total \div n) + (IF i <= (total % n) THEN 1 ELSE 0)

\* A start that leaves the remainder out.
PartStartNoRemainder(i, n, total) == (i - 1) * (total \div n)

PartStart(i, n, total) == (i - 1) * (total \div n) + Min2(i - 1, total % n)

ChunkFilter(p, total, x) ==
    /\ x >= PartStart(p[1], p[2], total)
    /\ x < PartStart(p[1], p[2], total) + PartSize(p[1], p[2], total)

PartsChoices == {<<i, n>> : i \in 1..MaxParts, n \in 1..MaxParts} \cap
                {p \in (1..MaxParts) \X (1..MaxParts) : p[1] <= p[2]}

Owned(p) == {g \in GroupIds : ChunkFilter(p, NGroups, g)}

VARIABLES
    flags,       \* registry: z["_build"]["flags"], one boolean per group
    history,     \* registry: the history attribute, a list of events
    provenance,  \* registry: names of the provenance records
    data,        \* array store z["data"], indexed by date
    statistics,  \* the statistics arrays of the dataset store, <<>> when absent
    tmpExists,   \* the partial-statistics directory exists
    records,     \* partial-statistics store: key (dates) -> record
    tmpProv,     \* provenance.json is present in the partial store
    initpc,      \* position of the InitialiserLoader process
    pc,          \* position of each ContentLoader process
    parts,       \* the parts each ContentLoader was given
    ig,          \* igroup of the loop of load()
    res,         \* the result of input.select(dates=group)
    cache,       \* ViewCacheArray.cache, the staged values
    runs,        \* commands issued so far
    faults,      \* kills and provider/validation failures so far
    \* PersistentDict on its own: one directory, writers and a reader
    dir,         \* the directory: file name -> bytes written so far
    ppc,         \* position of each writer in __setitem__
    pkey,        \* key of the put in progress
    pelt,        \* elt of the put in progress
    pwarn,       \* the put in progress logged "already exists"
    finished,    \* the (key, elt) pairs of the puts that returned
    rpc,         \* position of the reader in items()
    rfiles,      \* the files glob returned that are not read yet
    seen,        \* the values items() has yielded
    sputs,       \* puts started so far
    scrashes,    \* writers killed so far
    \* GenericAdditionsLoader on its own: the additions' partial records
    astore,      \* tmp_storage: key -> the record stored under it
    aresult,     \* how the last finalise() ended, and its Summary
    awritten,    \* the statistics _write has put in the dataset
    afinalised,  \* finalise() calls so far
    \* ChunkFilter on its own
    cfN,         \* the number of parts n
    cfTotal,     \* the number of units
    cfParts,     \* part i -> the units the filter i/n lets through
    \* StatisticsAdder._get_statistics_dates on its own
    sdMeta,      \* the dataset: missing dates, statistics_start/end_date
    sdUser,      \* the caller's statistics_start and statistics_end
    sdResult,    \* what the last call returned
    \* AdditionsLoader.run beside the build
    addStore,    \* tmp_storage directory: file name -> the (key, elt) pickled in it
    addDone,     \* the parts whose run() returned since the storage was emptied
    addRuns,     \* additions commands issued so far
    \* InitialiserLoader between __init__ and initialise()
    minimal_input, \* the time length of self.minimal_input.shape, 0 when there is none
    \* TrimEdge on its own
    trimIn,      \* forward.field_shape and the edge argument of the constructor
    trimOut      \* how the constructor ended: the error, or the mask and field_shape

varsReg == <<flags, history, provenance>>
varsStore == <<data, statistics>>
varsTmp == <<tmpExists, records, tmpProv>>
varsWorker == <<pc, parts, ig, res, cache>>
varsCount == <<runs, faults>>
varsB == <<varsReg, varsStore, varsTmp, varsWorker, varsCount, initpc>>

varsS == <<dir, ppc, pkey, pelt, pwarn, finished, rpc, rfiles, seen, sputs, scrashes>>

varsA == <<astore, aresult, awritten, afinalised>>

varsP == <<cfN, cfTotal, cfParts>>

varsD == <<sdMeta, sdUser, sdResult>>

varsR == <<addStore, addDone, addRuns>>

varsI == <<minimal_input>>

varsT == <<trimIn, trimOut>>

vars == <<varsB, varsS, varsA, varsP, varsD, varsR, varsI, varsT>>

\* What a step of one component leaves alone: the other components.
frameI == <<varsS, varsA, varsP, varsD, varsR, varsT>>
frameB == <<frameI, varsI>>
frameS == <<varsB, varsA, varsP, varsD, varsR, varsI, varsT>>
frameA == <<varsB, varsS, varsP, varsD, varsR, varsI, varsT>>
frameP == <<varsB, varsS, varsA, varsD, varsR, varsI, varsT>>
frameD == <<varsB, varsS, varsA, varsP, varsR, varsI, varsT>>
frameR == <<varsB, varsS, varsA, varsP, varsD, varsI, varsT>>
frameT == <<varsB, varsS, varsA, varsP, varsD, varsR, varsI>>

Event(e, p) == [event |-> e, parts |-> p]

\* No InitialiserLoader object exists.
NoProbe == 0

Ended == {"idle", "done", "crashed", "failed", "invalid"}

(***************************************************************************)
(* The input provider's answers to select(dates=group): the contract-      *)
(* abiding one, and answers that break the contract or carry a NaN.        *)
(***************************************************************************)
GoodResult(g) ==
    [dates |-> GroupDates(g), cubeDates |-> GroupDates(g),
     values |-> [i \in 1..GroupLen |-> Val(GroupDates(g)[i])]]

ProviderResults(g) ==
    {GoodResult(g),
     [GoodResult(g) EXCEPT !.dates = GroupDates((g + 1) % NGroups)],
     [GoodResult(g) EXCEPT !.cubeDates = GroupDates((g + 1) % NGroups)],
     [GoodResult(g) EXCEPT !.values = [i \in 1..GroupLen |-> IF i = GroupLen THEN NaN ELSE @[i]]]}

NoResult == [dates |-> <<>>, cubeDates |-> <<>>, values |-> <<>>]

(***************************************************************************)
(* compute_statistics(array.cache, ...): one row per date of the block.    *)
(***************************************************************************)
StatRow(v) ==
    [minimum |-> v, maximum |-> v, sums |-> v, squares |-> v * v,
     count |-> 1, has_nans |-> FALSE]

compute_statistics(c) == [i \in DOMAIN c |-> StatRow(c[i])]

\* dates_to_indexes(self.dates, dates_in_data): where the cube's dates sit
\* in the dataset's date axis.
dates_to_indexes(ds) == {d \in Dates : d \in SeqRange(ds)}

(***************************************************************************)
(* The state InitialiserLoader.initialise leaves.                          *)
(***************************************************************************)
InitHistory ==
    <<Event("tmp_statistics_initialised", <<>>), Event("init finished", <<>>)>>

InitB ==
    /\ flags = [g \in GroupIds |-> FALSE]
    /\ history = InitHistory
    /\ provenance = {}
    /\ data = [d \in Dates |-> Fill]
    /\ statistics = <<>>
    /\ tmpExists = TRUE
    /\ records = <<>>
    /\ tmpProv = FALSE
    /\ initpc = "none"
    /\ minimal_input = NoProbe
    /\ pc = [w \in Workers |-> "idle"]
    /\ parts = [w \in Workers |-> <<1, 1>>]
    /\ ig = [w \in Workers |-> 0]
    /\ res = [w \in Workers |-> NoResult]
    /\ cache = [w \in Workers |-> <<>>]
    /\ runs = 0
    /\ faults = 0

(***************************************************************************)
(* PersistentDict (create/persistent.py)                                   *)
(***************************************************************************)
Writers == {1, 2}
Keys == {<<0>>, <<1>>, <<0, 1>>}
Elts == {10, 11}

\* hashlib.sha256(str(key).encode("utf-8")).hexdigest(): the digest of the
\* string form of the key; the string form of a list of dates gives its
\* length and its elements in order.
RECURSIVE StrCode(_)
StrCode(key) ==
    IF key = <<>> THEN 1 ELSE (StrCode(Tail(key)) * (NDates + 1)) + Head(key) + 1

Hash(key) == StrCode(key)

\* A file name: the hexdigest, the extension that follows it, and the pid
\* and host that a temporary name ends with (0 when there is none).
\* path = os.path.join(self.dirname, f"{h}.pickle")
Path(key) == <<Hash(key), "pickle", 0>>

\* A put that writes the pickle under its final name.
TmpPathInPlace(path, p) == path

\* tmp_path = path + f".tmp-{os.getpid()}-on-{socket.gethostname()}"
TmpPath(path, p) == <<path[1], "pickle.tmp", p>>

ProvenancePath == <<0, "json", 0>>

\* A glob that matches every file of the directory.
GlobAll(d) == DOMAIN d

\* glob.glob(self.dirname + "/*.pickle"): the names that end with .pickle
Glob(d) == {f \in DOMAIN d : f[2] = "pickle" /\ f[3] = 0}

\* pickle.load(f) of a file that holds a whole (key, elt) pickle
Complete(bytes) == Len(bytes) = 2

\* What items() yields when it is run on the directory as it is now.
ItemsNow == {dir[f] : f \in Glob(dir)}

FileWrite(d, f, bytes) == [g \in (DOMAIN d) \cup {f} |-> IF g = f THEN bytes ELSE d[g]]

FileRemove(d, f) == [g \in (DOMAIN d) \ {f} |-> d[g]]

InitS ==
    /\ dir = <<>>
    /\ ppc = [p \in Writers |-> "idle"]
    /\ pkey = [p \in Writers |-> <<>>]
    /\ pelt = [p \in Writers |-> 0]
    /\ pwarn = [p \in Writers |-> FALSE]
    /\ finished = {}
    /\ rpc = "idle"
    /\ rfiles = {}
    /\ seen = {}
    /\ sputs = 0
    /\ scrashes = 0

\* A put that refuses a key whose file exists.
PutBeginReject(p, key, elt) ==
    /\ ppc[p] \in {"idle", "dead"}
    /\ Path(key) \notin DOMAIN dir
    /\ sputs < MaxPuts
    /\ sputs' = sputs + 1
    /\ pkey' = [pkey EXCEPT ![p] = key]
    /\ pelt' = [pelt EXCEPT ![p] = elt]
    /\ pwarn' = [pwarn EXCEPT ![p] = FALSE]
    /\ ppc' = [ppc EXCEPT ![p] = "open"]
    /\ UNCHANGED <<dir, finished, rpc, rfiles, seen, scrashes>>
    /\ UNCHANGED frameS

\* __setitem__(key, elt): h, path, and the os.path.exists(path) warning.
PutBegin(p, key, elt) ==
    /\ ppc[p] \in {"idle", "dead"}
    /\ sputs < MaxPuts
    /\ sputs' = sputs + 1
    /\ pkey' = [pkey EXCEPT ![p] = key]
    /\ pelt' = [pelt EXCEPT ![p] = elt]
    /\ pwarn' = [pwarn EXCEPT ![p] = Path(key) \in DOMAIN dir]
    /\ ppc' = [ppc EXCEPT ![p] = "open"]
    /\ UNCHANGED <<dir, finished, rpc, rfiles, seen, scrashes>>
    /\ UNCHANGED frameS

\* __setitem__: open(tmp_path, "wb") creates the file, or empties it.
PutOpen(p) ==
    /\ ppc[p] = "open"
    /\ dir' = FileWrite(dir, TmpPath(Path(pkey[p]), p), <<>>)
    /\ ppc' = [ppc EXCEPT ![p] = "dump"]
    /\ UNCHANGED <<pkey, pelt, pwarn, finished, rpc, rfiles, seen, sputs, scrashes>>
    /\ UNCHANGED frameS

\* __setitem__: pickle.dump((key, elt), f): the bytes reach the file in
\* pieces; the file is complete when the with block is left.
PutDump(p) ==
    /\ ppc[p] = "dump"
    /\ LET f == TmpPath(Path(pkey[p]), p)
       IN IF dir[f] = <<>>
             THEN /\ dir' = FileWrite(dir, f, <<pkey[p]>>)
                  /\ UNCHANGED ppc
             ELSE /\ dir' = FileWrite(dir, f, <<pkey[p], pelt[p]>>)
                  /\ ppc' = [ppc EXCEPT ![p] = "move"]
    /\ UNCHANGED <<pkey, pelt, pwarn, finished, rpc, rfiles, seen, sputs, scrashes>>
    /\ UNCHANGED frameS

\* __setitem__: shutil.move(tmp_path, path): a rename within the directory.
PutMove(p) ==
    /\ ppc[p] = "move"
    /\ LET path == Path(pkey[p])
           tmp == TmpPath(path, p)
       IN dir' = IF tmp = path THEN dir ELSE FileRemove(FileWrite(dir, path, dir[tmp]), tmp)
    /\ finished' = finished \cup {<<pkey[p], pelt[p]>>}
    /\ ppc' = [ppc EXCEPT ![p] = "idle"]
    /\ UNCHANGED <<pkey, pelt, pwarn, rpc, rfiles, seen, sputs, scrashes>>
    /\ UNCHANGED frameS

\* The writer is killed inside __setitem__.
PutCrash(p) ==
    /\ ppc[p] \in {"open", "dump", "move"}
    /\ scrashes < MaxStoreCrashes
    /\ scrashes' = scrashes + 1
    /\ ppc' = [ppc EXCEPT ![p] = "dead"]
    /\ UNCHANGED <<dir, pkey, pelt, pwarn, finished, rpc, rfiles, seen, sputs>>
    /\ UNCHANGED frameS

\* add_provenance(): provenance.json is written next to the pickles.
AddProvenance ==
    /\ ProvenancePath \notin DOMAIN dir
    /\ dir' = FileWrite(dir, ProvenancePath, <<"provenance">>)
    /\ UNCHANGED <<ppc, pkey, pelt, pwarn, finished, rpc, rfiles, seen, sputs, scrashes>>
    /\ UNCHANGED frameS

\* items(): files = glob.glob(...); assert len(files) > 0
ItemsGlob ==
    /\ rpc \in {"idle", "nodata"}
    /\ rfiles' = Glob(dir)
    /\ rpc' = IF Glob(dir) = {} THEN "nodata" ELSE "reading"
    /\ seen' = {}
    /\ UNCHANGED <<dir, ppc, pkey, pelt, pwarn, finished, sputs, scrashes>>
    /\ UNCHANGED frameS

\* items(): one turn of the loop: open(f, "rb"), yield pickle.load(f)
ItemsRead(f) ==
    /\ rpc = "reading"
    /\ f \in rfiles
    /\ seen' = seen \cup {dir[f]}
    /\ rfiles' = rfiles \ {f}
    /\ rpc' = IF rfiles = {f} THEN "idle" ELSE "reading"
    /\ UNCHANGED <<dir, ppc, pkey, pelt, pwarn, finished, sputs, scrashes>>
    /\ UNCHANGED frameS

NextStore ==
    \/ \E p \in Writers :
          \/ \E key \in Keys, elt \in Elts : PutBegin(p, key, elt)
          \/ PutOpen(p)
          \/ PutDump(p)
          \/ PutMove(p)
          \/ PutCrash(p)
    \/ AddProvenance
    \/ ItemsGlob
    \/ \E f \in rfiles : ItemsRead(f)

InitA ==
    /\ astore = <<>>
    /\ aresult = <<>>
    /\ awritten = <<>>
    /\ afinalised = 0

InitP ==
    /\ cfN = 1
    /\ cfTotal = 0
    /\ cfParts = <<>>

InitD ==
    /\ sdMeta = [missing |-> {}, start |-> 0, end |-> NSDates - 1]
    /\ sdUser = [start |-> <<>>, end |-> <<>>]
    /\ sdResult = <<>>

\* GenericAdditionsLoader.__init__: build_storage(directory, create=True)
InitR ==
    /\ addStore = <<>>
    /\ addDone = {}
    /\ addRuns = 0

\* No TrimEdge has been constructed.
InitT ==
    /\ trimIn = <<>>
    /\ trimOut = <<>>

Init == InitB /\ InitS /\ InitA /\ InitP /\ InitD /\ InitR /\ InitT

(***************************************************************************)
(* SpecStore: writers and a reader of one PersistentDict directory.        *)
(***************************************************************************)
SpecStore == Init /\ [][NextStore]_vars

(***************************************************************************)
(* ContentLoader                                                           *)
(***************************************************************************)
Reset(w) ==
    /\ ig' = [ig EXCEPT ![w] = 0]
    /\ res' = [res EXCEPT ![w] = NoResult]
    /\ cache' = [cache EXCEPT ![w] = <<>>]

\* ContentLoader.__init__: a process is started with its parts.
Invoke(w, p) ==
    /\ pc[w] \in {"idle", "done"}
    /\ initpc = "none"
    /\ runs < MaxRuns
    /\ runs' = runs + 1
    /\ parts' = [parts EXCEPT ![w] = p]
    /\ pc' = [pc EXCEPT ![w] = "start"]
    /\ Reset(w)
    /\ UNCHANGED <<varsReg, varsStore, varsTmp, faults, initpc>>
    /\ UNCHANGED frameB

\* The same load command is run again after the process was killed or failed.
Reinvoke(w) ==
    /\ pc[w] \in {"crashed", "failed", "invalid"}
    /\ initpc = "none"
    /\ pc' = [pc EXCEPT ![w] = "start"]
    /\ Reset(w)
    /\ UNCHANGED <<varsReg, varsStore, varsTmp, parts, varsCount, initpc>>
    /\ UNCHANGED frameB

\* LoadStart that records the event without the parts of the worker.
LoadStartNoParts(w) ==
    /\ pc[w] = "start"
    /\ history' = Append(history, Event("loading_data_start", <<>>))
    /\ pc' = [pc EXCEPT ![w] = "loop"]
    /\ UNCHANGED <<flags, provenance, varsStore, varsTmp, parts, ig, res, cache,
                   varsCount, initpc>>
    /\ UNCHANGED frameB

\* load(): registry.add_to_history("loading_data_start", parts=self.parts)
LoadStart(w) ==
    /\ pc[w] = "start"
    /\ history' = Append(history, Event("loading_data_start", parts[w]))
    /\ pc' = [pc EXCEPT ![w] = "loop"]
    /\ UNCHANGED <<flags, provenance, varsStore, varsTmp, parts, ig, res, cache,
                   varsCount, initpc>>
    /\ UNCHANGED frameB

\* LoopHead with the registry flag not consulted: flagged groups are redone.
LoopHeadNoSkip(w) ==
    /\ pc[w] = "loop"
    /\ IF ig[w] = NGroups
          THEN /\ pc' = [pc EXCEPT ![w] = "end"]
               /\ UNCHANGED ig
          ELSE IF ~ChunkFilter(parts[w], NGroups, ig[w])
                  THEN /\ ig' = [ig EXCEPT ![w] = @ + 1]
                       /\ UNCHANGED pc
                  ELSE /\ pc' = [pc EXCEPT ![w] = "select"]
                       /\ UNCHANGED ig
    /\ UNCHANGED <<varsReg, varsStore, varsTmp, parts, res, cache, varsCount,
                   initpc>>
    /\ UNCHANGED frameB

\* LoopHead with a break in place of the continue of an already flagged group.
LoopHeadBreak(w) ==
    /\ pc[w] = "loop"
    /\ IF ig[w] = NGroups
          THEN /\ pc' = [pc EXCEPT ![w] = "end"]
               /\ UNCHANGED ig
          ELSE IF ~ChunkFilter(parts[w], NGroups, ig[w])
                  THEN /\ ig' = [ig EXCEPT ![w] = @ + 1]
                       /\ UNCHANGED pc
                  ELSE IF flags[ig[w]]
                          THEN /\ pc' = [pc EXCEPT ![w] = "end"]
                               /\ UNCHANGED ig
                          ELSE /\ pc' = [pc EXCEPT ![w] = "select"]
                               /\ UNCHANGED ig
    /\ UNCHANGED <<varsReg, varsStore, varsTmp, parts, res, cache, varsCount,
                   initpc>>
    /\ UNCHANGED frameB

\* LoopHead that passes over the group after an already flagged one as well.
LoopHeadSkipNext(w) ==
    /\ pc[w] = "loop"
    /\ IF ig[w] = NGroups
          THEN /\ pc' = [pc EXCEPT ![w] = "end"]
               /\ UNCHANGED ig
          ELSE IF ~ChunkFilter(parts[w], NGroups, ig[w])
                  THEN /\ ig' = [ig EXCEPT ![w] = @ + 1]
                       /\ UNCHANGED pc
                  ELSE IF flags[ig[w]]
                          THEN /\ ig' = [ig EXCEPT ![w] = Min2(@ + 2, NGroups)]
                               /\ UNCHANGED pc
                          ELSE /\ pc' = [pc EXCEPT ![w] = "select"]
                               /\ UNCHANGED ig
    /\ UNCHANGED <<varsReg, varsStore, varsTmp, parts, res, cache, varsCount,
                   initpc>>
    /\ UNCHANGED frameB

\* LoopHead that does not consult the chunk filter.
LoopHeadNoFilter(w) ==
    /\ pc[w] = "loop"
    /\ IF ig[w] = NGroups
          THEN /\ pc' = [pc EXCEPT ![w] = "end"]
               /\ UNCHANGED ig
          ELSE IF flags[ig[w]]
                  THEN /\ ig' = [ig EXCEPT ![w] = @ + 1]
                       /\ UNCHANGED pc
                  ELSE /\ pc' = [pc EXCEPT ![w] = "select"]
                       /\ UNCHANGED ig
    /\ UNCHANGED <<varsReg, varsStore, varsTmp, parts, res, cache, varsCount,
                   initpc>>
    /\ UNCHANGED frameB

\* load(): the head of the loop: the chunk filter, then registry.get_flag.
LoopHead(w) ==
    /\ pc[w] = "loop"
    /\ IF ig[w] = NGroups
          THEN /\ pc' = [pc EXCEPT ![w] = "end"]
               /\ UNCHANGED ig
          ELSE IF ~ChunkFilter(parts[w], NGroups, ig[w])
                  THEN /\ ig' = [ig EXCEPT ![w] = @ + 1]
                       /\ UNCHANGED pc
                  ELSE IF flags[ig[w]]
                          THEN /\ ig' = [ig EXCEPT ![w] = @ + 1]
                               /\ UNCHANGED pc
                          ELSE /\ pc' = [pc EXCEPT ![w] = "select"]
                               /\ UNCHANGED ig
    /\ UNCHANGED <<varsReg, varsStore, varsTmp, parts, res, cache, varsCount,
                   initpc>>
    /\ UNCHANGED frameB

\* ResultAccepted without check_dates_in_data.
ResultAcceptedDatesOnly(r, g) ==
    /\ r.dates = GroupDates(g)
    /\ Len(r.values) = Len(r.dates)

\* The checks between select() and the creation of the cache buffer:
\* result.dates == group, and check_dates_in_data(dates_in_data, dates).
ResultAccepted(r, g) ==
    /\ r.dates = GroupDates(g)
    /\ Len(r.values) = Len(r.dates)
    /\ r.cubeDates = r.dates

\* load(): result = self.input.select(dates=group), its assertions, and
\* load_result() up to array = ViewCacheArray(...).
Select(w, r) ==
    /\ pc[w] = "select"
    /\ r # GoodResult(ig[w]) => faults < MaxFaults
    /\ IF ResultAccepted(r, ig[w])
          THEN /\ res' = [res EXCEPT ![w] = r]
               /\ cache' = [cache EXCEPT ![w] = <<>>]
               /\ pc' = [pc EXCEPT ![w] = "stage"]
               /\ faults' = IF r = GoodResult(ig[w]) THEN faults ELSE faults + 1
               /\ UNCHANGED ig
          ELSE /\ pc' = [pc EXCEPT ![w] = "failed"]
               /\ faults' = faults + 1
               /\ Reset(w)
    /\ UNCHANGED <<varsReg, varsStore, varsTmp, parts, runs, initpc>>
    /\ UNCHANGED frameB

\* check_data_values(data, name, allow_nan): no variable allows NaNs here.
check_data_values(v) == v # NaN

\* Stage with the cubelet assigned into the cache without check_data_values.
StageUnchecked(w) ==
    /\ pc[w] = "stage"
    /\ LET i == Len(cache[w]) + 1
           v == res[w].values[i]
       IN /\ cache' = [cache EXCEPT ![w] = Append(@, v)]
          /\ pc' = [pc EXCEPT ![w] = IF i = Len(res[w].values) THEN "stats" ELSE "stage"]
          /\ UNCHANGED <<ig, res>>
    /\ UNCHANGED <<varsReg, varsStore, varsTmp, parts, varsCount, initpc>>
    /\ UNCHANGED frameB

\* Stage in which the cubelet is also written to the array store at once.
StageWriteThrough(w) ==
    /\ pc[w] = "stage"
    /\ LET i == Len(cache[w]) + 1
           v == res[w].values[i]
       IN IF check_data_values(v)
             THEN /\ cache' = [cache EXCEPT ![w] = Append(@, v)]
                  /\ data' = [data EXCEPT ![res[w].cubeDates[i]] = v]
                  /\ pc' = [pc EXCEPT ![w] = IF i = Len(res[w].values) THEN "stats" ELSE "stage"]
                  /\ UNCHANGED <<ig, res>>
             ELSE /\ pc' = [pc EXCEPT ![w] = "invalid"]
                  /\ UNCHANGED data
                  /\ Reset(w)
    /\ UNCHANGED <<varsReg, statistics, varsTmp, parts, varsCount, initpc>>
    /\ UNCHANGED frameB

\* load_cube(): one cubelet: check_data_values, then array[local_indexes] = data.
Stage(w) ==
    /\ pc[w] = "stage"
    /\ LET i == Len(cache[w]) + 1
           v == res[w].values[i]
       IN IF check_data_values(v)
             THEN /\ cache' = [cache EXCEPT ![w] = Append(@, v)]
                  /\ pc' = [pc EXCEPT ![w] = IF i = Len(res[w].values) THEN "stats" ELSE "stage"]
                  /\ UNCHANGED <<ig, res>>
             ELSE /\ pc' = [pc EXCEPT ![w] = "invalid"]
                  /\ Reset(w)
    /\ UNCHANGED <<varsReg, varsStore, varsTmp, parts, varsCount, initpc>>
    /\ UNCHANGED frameB

\* TmpStatistics.write(key, data, dates): the record appears under its key.
TmpWrite(recs, key, rec) ==
    [k \in (DOMAIN recs) \cup {key} |-> IF k = key THEN rec ELSE recs[k]]

\* WriteStats with the record keyed by the first date only.
WriteStatsFirstDate(w) ==
    /\ pc[w] = "stats"
    /\ LET key == <<res[w].cubeDates[1]>>
           rec == [dates |-> key, indexes |-> dates_to_indexes(key),
                   stats |-> compute_statistics(cache[w])]
       IN records' = TmpWrite(records, key, rec)
    /\ tmpExists' = TRUE
    /\ pc' = [pc EXCEPT ![w] = "flush"]
    /\ UNCHANGED <<varsReg, varsStore, tmpProv, parts, ig, res, cache, varsCount,
                   initpc>>
    /\ UNCHANGED frameB

\* load_result(): stats = compute_statistics(array.cache, ...);
\* self.tmp_statistics.write(indexes, stats, dates=dates_in_data)
WriteStats(w) ==
    /\ pc[w] = "stats"
    /\ LET key == res[w].cubeDates
           rec == [dates |-> key, indexes |-> dates_to_indexes(key),
                   stats |-> compute_statistics(cache[w])]
       IN records' = TmpWrite(records, key, rec)
    /\ tmpExists' = TRUE
    /\ pc' = [pc EXCEPT ![w] = "flush"]
    /\ UNCHANGED <<varsReg, varsStore, tmpProv, parts, ig, res, cache, varsCount,
                   initpc>>
    /\ UNCHANGED frameB

\* ViewCacheArray.flush(): one bulk write, self.array[self.indexes] = self.cache
ViewFlush(arr, indexes, c) ==
    [d \in DOMAIN arr |->
        IF d \in indexes THEN c[Cardinality({e \in indexes : e <= d})] ELSE arr[d]]

\* Flush with the bulk write left out.
FlushSkipped(w) ==
    /\ pc[w] = "flush"
    /\ pc' = [pc EXCEPT ![w] = "setflag"]
    /\ UNCHANGED <<varsReg, varsStore, varsTmp, parts, ig, res, cache, varsCount,
                   initpc>>
    /\ UNCHANGED frameB

\* load_result(): array.flush()
Flush(w) ==
    /\ pc[w] = "flush"
    /\ data' = ViewFlush(data, dates_to_indexes(res[w].cubeDates), cache[w])
    /\ pc' = [pc EXCEPT ![w] = "setflag"]
    /\ UNCHANGED <<varsReg, statistics, varsTmp, parts, ig, res, cache, varsCount,
                   initpc>>
    /\ UNCHANGED frameB

\* ZarrBuiltRegistry.set_flag(i)
set_flag(f, i) == [f EXCEPT ![i] = TRUE]

\* SetFlag that stores a fresh flags array with only this group's flag set.
SetFlagClobber(w) ==
    /\ pc[w] = "setflag"
    /\ flags' = [g \in GroupIds |-> g = ig[w]]
    /\ pc' = [pc EXCEPT ![w] = "loop"]
    /\ ig' = [ig EXCEPT ![w] = @ + 1]
    /\ res' = [res EXCEPT ![w] = NoResult]
    /\ cache' = [cache EXCEPT ![w] = <<>>]
    /\ UNCHANGED <<history, provenance, varsStore, varsTmp, parts, varsCount,
                   initpc>>
    /\ UNCHANGED frameB

\* SetFlag that leaves the registry flag unset and moves on.
SetFlagDeferred(w) ==
    /\ pc[w] = "setflag"
    /\ pc' = [pc EXCEPT ![w] = "loop"]
    /\ ig' = [ig EXCEPT ![w] = @ + 1]
    /\ res' = [res EXCEPT ![w] = NoResult]
    /\ cache' = [cache EXCEPT ![w] = <<>>]
    /\ UNCHANGED <<varsReg, varsStore, varsTmp, parts, varsCount, initpc>>
    /\ UNCHANGED frameB

\* load(): self.registry.set_flag(igroup), and on to the next group.
SetFlag(w) ==
    /\ pc[w] = "setflag"
    /\ flags' = set_flag(flags, ig[w])
    /\ pc' = [pc EXCEPT ![w] = "loop"]
    /\ ig' = [ig EXCEPT ![w] = @ + 1]
    /\ res' = [res EXCEPT ![w] = NoResult]
    /\ cache' = [cache EXCEPT ![w] = <<>>]
    /\ UNCHANGED <<history, provenance, varsStore, varsTmp, parts, varsCount,
                   initpc>>
    /\ UNCHANGED frameB

\* load(): registry.add_to_history("loading_data_end", parts=self.parts)
LoadEnd(w) ==
    /\ pc[w] = "end"
    /\ history' = Append(history, Event("loading_data_end", parts[w]))
    /\ pc' = [pc EXCEPT ![w] = "prov"]
    /\ UNCHANGED <<flags, provenance, varsStore, varsTmp, parts, ig, res, cache,
                   varsCount, initpc>>
    /\ UNCHANGED frameB

\* load(): registry.add_provenance(name="provenance_load")
RegProvenance(w) ==
    /\ pc[w] = "prov"
    /\ provenance' = provenance \cup {"provenance_load"}
    /\ pc' = [pc EXCEPT ![w] = "tmpprov"]
    /\ UNCHANGED <<flags, history, varsStore, varsTmp, parts, ig, res, cache,
                   varsCount, initpc>>
    /\ UNCHANGED frameB

\* load(): tmp_statistics.add_provenance(...), then print_info(); load returns.
TmpProvenance(w) ==
    /\ pc[w] = "tmpprov"
    /\ tmpProv' = TRUE
    /\ tmpExists' = TRUE
    /\ pc' = [pc EXCEPT ![w] = "done"]
    /\ Reset(w)
    /\ UNCHANGED <<varsReg, varsStore, records, parts, varsCount, initpc>>
    /\ UNCHANGED frameB

\* The process is killed between two statements; its memory is lost.
Crash(w) ==
    /\ pc[w] \notin Ended
    /\ faults < MaxFaults
    /\ faults' = faults + 1
    /\ pc' = [pc EXCEPT ![w] = "crashed"]
    /\ Reset(w)
    /\ UNCHANGED <<varsReg, varsStore, varsTmp, parts, runs, initpc>>
    /\ UNCHANGED frameB

LoadStep(w) ==
    \/ LoadStart(w)
    \/ LoopHead(w)
    \/ \E r \in ProviderResults(ig[w]) : Select(w, r)
    \/ Stage(w)
    \/ WriteStats(w)
    \/ Flush(w)
    \/ SetFlag(w)
    \/ LoadEnd(w)
    \/ RegProvenance(w)
    \/ TmpProvenance(w)

NextLoad ==
    \E w \in Workers :
        \/ \E p \in PartsChoices : Invoke(w, p)
        \/ Reinvoke(w)
        \/ LoadStep(w)
        \/ Crash(w)

(***************************************************************************)
(* InitialiserLoader                                                       *)
(***************************************************************************)
\* The time lengths of the shape of the probe fetch: one date was asked
\* for; a provider may also return the whole date axis.
ProbeLens == {1, NDates}

\* InitialiserLoader.__init__: self.tmp_statistics.delete(), and
\* self.minimal_input = self.input.select([all_dates[0]])
InitialiserConstruct(probe) ==
    /\ initpc = "none"
    /\ \A w \in Workers : pc[w] \in Ended
    /\ runs < MaxRuns
    /\ runs' = runs + 1
    /\ records' = <<>>
    /\ tmpExists' = FALSE
    /\ tmpProv' = FALSE
    /\ initpc' = "constructed"
    /\ minimal_input' = probe
    /\ UNCHANGED <<varsReg, varsStore, varsWorker, faults>>
    /\ UNCHANGED frameI

\* total_shape = self.minimal_input.shape; total_shape[0] = len(dates)
total_shape(shape) == [shape EXCEPT ![1] = NDates]

\* Initialise in which registry.create leaves existing flags as they are.
InitialiseKeepFlags(nameOk) ==
    /\ initpc = "constructed"
    /\ initpc' = "none"
    /\ minimal_input' = NoProbe
    /\ IF ~nameOk \/ NDates # total_shape(<<minimal_input>>)[1]
          THEN UNCHANGED <<varsReg, varsStore, varsTmp>>
          ELSE /\ UNCHANGED flags
               /\ provenance' = {}
               /\ data' = [d \in Dates |-> Fill]
               /\ statistics' = <<>>
               /\ IF tmpExists
                     THEN /\ history' = <<>>
                          /\ UNCHANGED varsTmp
                     ELSE /\ history' = InitHistory
                          /\ tmpExists' = TRUE
                          /\ UNCHANGED <<records, tmpProv>>
    /\ pc' = [w \in Workers |-> "idle"]
    /\ UNCHANGED <<parts, ig, res, cache, varsCount>>
    /\ UNCHANGED frameI

\* InitialiserLoader.initialise(): the checks, then initialise_dataset_backend
\* (zarr.open(path, mode="w")), the arrays, registry.create, tmp_statistics.create
\* and the history entries.
Initialise(nameOk) ==
    /\ initpc = "constructed"
    /\ initpc' = "none"
    /\ minimal_input' = NoProbe
    /\ IF ~nameOk \/ NDates # total_shape(<<minimal_input>>)[1]
          THEN UNCHANGED <<varsReg, varsStore, varsTmp>>
          ELSE /\ flags' = [g \in GroupIds |-> FALSE]
               /\ provenance' = {}
               /\ data' = [d \in Dates |-> Fill]
               /\ statistics' = <<>>
               /\ IF tmpExists
                     THEN /\ history' = <<>>
                          /\ UNCHANGED varsTmp
                     ELSE /\ history' = InitHistory
                          /\ tmpExists' = TRUE
                          /\ UNCHANGED <<records, tmpProv>>
    /\ pc' = [w \in Workers |-> "idle"]
    /\ UNCHANGED <<parts, ig, res, cache, varsCount>>
    /\ UNCHANGED frameI

NextInit ==
    \/ \E probe \in ProbeLens : InitialiserConstruct(probe)
    \/ \E nameOk \in BOOLEAN : Initialise(nameOk)

(***************************************************************************)
(* StatisticsAdder and the additions' _write                               *)
(***************************************************************************)
RECURSIVE SumOver(_, _)
SumOver(f, S) ==
    IF S = {} THEN 0
    ELSE LET x == CHOOSE y \in S : TRUE IN f[x] + SumOver(f, S \ {x})

SetMin(S) == CHOOSE x \in S : \A y \in S : x <= y
SetMax(S) == CHOOSE x \in S : \A y \in S : x >= y

\* The Summary of per-date rows: the reduction over the time axis.
SummaryOf(rows) ==
    [minimum |-> SetMin({rows[d].minimum : d \in DOMAIN rows}),
     maximum |-> SetMax({rows[d].maximum : d \in DOMAIN rows}),
     sums |-> SumOver([d \in DOMAIN rows |-> rows[d].sums], DOMAIN rows),
     squares |-> SumOver([d \in DOMAIN rows |-> rows[d].squares], DOMAIN rows),
     count |-> SumOver([d \in DOMAIN rows |-> rows[d].count], DOMAIN rows)]

\* The records that hold a row for date d.
RecordsOf(recs, d) == {k \in DOMAIN recs : d \in SeqRange(recs[k].dates)}

RowOf(rec, d) == rec.stats[CHOOSE i \in DOMAIN rec.dates : rec.dates[i] = d]

\* TmpStatistics.get_aggregated(dates, ...): every date in exactly one record.
Covered(recs) == \A d \in Dates : Cardinality(RecordsOf(recs, d)) = 1

get_aggregated(recs) ==
    SummaryOf([d \in Dates |-> RowOf(recs[CHOOSE k \in RecordsOf(recs, d) : TRUE], d)])

\* StatisticsAdder.run() with statistics_output=None: get_aggregated, then
\* write_stats_to_dataset.
StatisticsAdderRun(userDates) ==
    /\ initpc = "none"
    /\ runs < MaxRuns
    /\ runs' = runs + 1
    /\ IF ~Covered(records)
          THEN UNCHANGED <<statistics, history>>
          ELSE IF userDates
                  THEN UNCHANGED <<statistics, history>>
                  ELSE IF ~(\A g \in GroupIds : flags[g])
                          THEN UNCHANGED <<statistics, history>>
                          ELSE /\ statistics' = <<get_aggregated(records)>>
                               /\ history' = Append(history, Event("compute_statistics_end", <<>>))
    /\ UNCHANGED <<flags, provenance, data, varsTmp, varsWorker, faults, initpc>>
    /\ UNCHANGED frameB

\* The summary the additions pass recomputes from the stored data.
SummaryOfData == SummaryOf([d \in Dates |-> StatRow(data[d])])

\* GenericAdditionsLoader._write(summary)
AdditionsWrite ==
    /\ initpc = "none"
    /\ runs < MaxRuns
    /\ runs' = runs + 1
    /\ statistics' = <<SummaryOfData>>
    /\ history' = Append(history, Event("compute_statistics_end", <<>>))
    /\ UNCHANGED <<flags, provenance, data, varsTmp, varsWorker, faults, initpc>>
    /\ UNCHANGED frameB

NextStats ==
    \/ \E userDates \in BOOLEAN : StatisticsAdderRun(userDates)
    \/ AdditionsWrite

\* No ContentLoader process is running.
(***************************************************************************)
(* AdditionsLoader: initialise() and run(parts) on the dataset              *)
(***************************************************************************)
\* The dates at which a run() may be killed, and the sets of dates whose
\* read raises MissingDateError.
RunStops == {NDates - 3, NDates}
MissSets == {{}, {1}}

\* self[key] = elt as one process leaves it: the pickle of (key, elt) under
\* the name made of the key's digest.
StoragePut(d, key, elt) == FileWrite(d, Path(key), <<key, elt>>)

\* RunRecord in which the record of a date whose read raised lists no date.
RunRecordNoDates(i, miss) ==
    IF i \in miss
       THEN [ok |-> <<>>, missing |-> <<>>, i |-> i, stats |-> <<>>]
       ELSE [ok |-> <<i>>, missing |-> <<>>, i |-> i,
             stats |-> <<compute_statistics(<<data[i]>>)>>]

\* run(): the body of the loop for date i: the record of a date that was
\* read, or of a date whose read raised MissingDateError.
RunRecord(i, miss) ==
    IF i \in miss
       THEN [ok |-> <<>>, missing |-> <<i>>, i |-> i, stats |-> <<>>]
       ELSE [ok |-> <<i>>, missing |-> <<>>, i |-> i,
             stats |-> <<compute_statistics(<<data[i]>>)>>]

\* run(): for i in range(0, self.total), for the first k dates.
RECURSIVE RunLoop(_, _, _, _, _)
RunLoop(d, p, i, k, miss) ==
    IF i >= k THEN d
    ELSE IF ~ChunkFilter(p, NDates, i) THEN RunLoop(d, p, i + 1, k, miss)
    ELSE RunLoop(StoragePut(d, <<i>>, RunRecord(i, miss)), p, i + 1, k, miss)

\* GenericAdditionsLoader.initialise(): tmp_storage.delete(); tmp_storage.create()
AdditionsInitialise ==
    /\ addRuns < MaxAddRuns
    /\ addRuns' = addRuns + 1
    /\ addStore' = <<>>
    /\ addDone' = {}
    /\ UNCHANGED frameR

\* AdditionsLoader.run(parts), killed after k dates or, with k the number of
\* dates, run to its end.
AdditionsRun(p, k, miss) ==
    /\ addRuns < MaxAddRuns
    /\ addRuns' = addRuns + 1
    /\ addStore' = RunLoop(addStore, p, 0, k, miss)
    /\ addDone' = IF k = NDates THEN addDone \cup {p} ELSE addDone
    /\ UNCHANGED frameR

NextAdditions ==
    \/ AdditionsInitialise
    \/ \E p \in PartsChoices : \E k \in RunStops : \E miss \in MissSets :
          AdditionsRun(p, k, miss)

Quiescent == \A w \in Workers : pc[w] \in Ended

\* An additions command is issued on a dataset whose groups are all loaded.
AdditionsCommand ==
    /\ Quiescent
    /\ initpc = "none"
    /\ \A g \in GroupIds : flags[g]
    /\ NextAdditions

\* A statistics command is issued between the loads.
StatsCommand ==
    /\ Quiescent
    /\ NextStats

(***************************************************************************)
(* Spec: loads by concurrent workers with kills and re-invocations; the    *)
(* initialiser and the statistics commands run between the loads.          *)
(***************************************************************************)
NextBuild ==
    \/ NextLoad
    \/ NextInit
    \/ StatsCommand
    \/ AdditionsCommand

Next == NextBuild

Spec == Init /\ [][Next]_vars

(***************************************************************************)
(* LiveSpec: the loads alone, every started process keeps taking steps     *)
(* until it returns or is killed, and a killed or failed load command is   *)
(* issued again; each worker is given one load command, for one of the     *)
(* MaxParts partitions.                                                    *)
(***************************************************************************)
NextLive ==
    \E w \in Workers :
        \/ \E p \in {q \in PartsChoices : q[2] = MaxParts} : pc[w] = "idle" /\ Invoke(w, p)
        \/ Reinvoke(w)
        \/ LoadStep(w)
        \/ Crash(w)

LiveSpec ==
    /\ Init
    /\ [][NextLive]_vars
    /\ \A w \in Workers : WF_vars(LoadStep(w)) /\ WF_vars(Reinvoke(w))

(***************************************************************************)
(* GenericAdditionsLoader: the additions' partial records and finalise     *)
(***************************************************************************)
\* self.dates = self.ds.dates: the target dates, in order.
ADates == 0..(NADates - 1)

\* The dates a record can name: the target dates and one date outside them.
RecDates == 0..NADates

\* The keys records are stored under: ascending lists of dates.
AKeys ==
    {k \in UNION {[1..n -> RecDates] : n \in 1..MaxKeyLen} :
        \A i \in DOMAIN k : \A j \in DOMAIN k : i < j => k[i] < k[j]}

ARows(ds) == [i \in DOMAIN ds |-> StatRow(Val(ds[i]))]

\* The tolerance of the variance check, in the unit of the squares.
VarianceTol == 1

\* Rows whose squares have lost delta to rounding.
ARowsLow(ds, delta) == [i \in DOMAIN ds |-> [StatRow(Val(ds[i])) EXCEPT !.squares = @ - delta]]

\* The values [dates_ok, missing_dates, i, stats] stored under key: what
\* run stores for dates it could read and for dates it could not, and the
\* records that are not of these two forms.
ARecords(key) ==
    {[ok |-> key, missing |-> <<>>, stats |-> <<ARows(key)>>],
     [ok |-> <<>>, missing |-> key, stats |-> <<>>],
     [ok |-> key, missing |-> <<>>, stats |-> <<>>],
     [ok |-> key, missing |-> <<>>, stats |-> <<ARows(<<key[1]>>)>>],
     [ok |-> <<key[1]>>, missing |-> <<key[Len(key)]>>, stats |-> <<ARows(<<key[1]>>)>>]}
    \cup {[ok |-> key, missing |-> <<>>, stats |-> <<ARowsLow(key, delta)>>] :
             delta \in IF Len(key) = 1 THEN {VarianceTol, VarianceTol + 1} ELSE {}}

\* _get_empty_stats_dict(shape): one row per target date.
EmptyRow ==
    [minimum |-> NaN, maximum |-> NaN, sums |-> NaN, squares |-> NaN,
     count |-> -1, has_nans |-> FALSE]

EmptyAgg == [d \in ADates |-> EmptyRow]

\* idates = [i for i, d in enumerate(self.dates) if d in dates]
idates(ds) == {d \in ADates : d \in SeqRange(ds)}

\* The i-th smallest element of a set of integers.
RECURSIVE Nth(_, _)
Nth(S, i) == IF i = 1 THEN SetMin(S) ELSE Nth(S \ {SetMin(S)}, i - 1)

\* finalise, one turn of the loop over tmp_storage.items(): acc is the
\* state of the loop, key and rec the item.
FinaliseItem(acc, key, rec) ==
    IF ~acc.ok THEN acc
    ELSE IF rec.missing # <<>>
    THEN [acc EXCEPT !.mask = Append(@, FALSE),
                     !.missing = @ \cup SeqRange(rec.missing)]
    ELSE IF \/ rec.stats = <<>>
            \/ Len(rec.stats[1]) # Len(rec.ok)
            \/ Len(rec.stats[1]) # Len(key)
            \/ acc.found \cap SeqRange(rec.ok) # {}
            \/ Cardinality(idates(rec.ok)) # Len(rec.ok)
    THEN [acc EXCEPT !.ok = FALSE]
    ELSE [acc EXCEPT !.mask = Append(@, TRUE),
                     !.found = @ \cup SeqRange(rec.ok),
                     !.agg = [d \in ADates |->
                                 IF d \in idates(rec.ok)
                                    THEN rec.stats[1][CHOOSE i \in 1..Len(rec.ok) : Nth(idates(rec.ok), i) = d]
                                    ELSE @[d]]]

RECURSIVE FinaliseLoop(_, _, _)
FinaliseLoop(acc, st, order) ==
    IF order = <<>> THEN acc
    ELSE FinaliseLoop(FinaliseItem(acc, Head(order), st[Head(order)]), st, Tail(order))

\* A finalise that goes on to the reduction whatever found and missing are.
CoverageAssertsSkipped(found, missing) == TRUE

\* finalise: the assertions on found and missing that follow the loop.
CoverageAsserts(found, missing) ==
    /\ \A d \in ADates : d \in found \/ d \in missing
    /\ NADates = Cardinality(found) + Cardinality(missing)
    /\ found \cap missing = {}

\* agg[k][mask, ...]: the rows whose position in the mask holds True.
MaskRows(agg, mask) == {d \in ADates : mask[d + 1]}

NanSet(S) == S \ {NaN}

NanSum(f, S) == SumOver(f, {x \in S : f[x] # NaN})

\* finalise: np.nanmin, np.nanmax, np.nansum, np.any over the kept rows.
Reduce(agg, rows) ==
    [minimum |-> IF NanSet({agg[d].minimum : d \in rows}) = {} THEN NaN
                 ELSE SetMin(NanSet({agg[d].minimum : d \in rows})),
     maximum |-> IF NanSet({agg[d].maximum : d \in rows}) = {} THEN NaN
                 ELSE SetMax(NanSet({agg[d].maximum : d \in rows})),
     sums |-> NanSum([d \in rows |-> agg[d].sums], rows),
     squares |-> NanSum([d \in rows |-> agg[d].squares], rows),
     count |-> SumOver([d \in rows |-> agg[d].count], rows),
     has_nans |-> \E d \in rows : agg[d].has_nans]

\* x = squares / count - mean * mean, times count * count.
VarianceNum(r) == (r.squares * r.count) - (r.sums * r.sums)

\* check_variance(x, ...): no variance below zero by more than the tolerance.
check_variance(r) == VarianceNum(r) >= -(VarianceTol * r.count * r.count)

\* Summary(minimum=..., ..., stdev=stdev, ...): the reductions, and the x
\* that stdev is the square root of (times count * count).
Summary(r) ==
    [minimum |-> r.minimum, maximum |-> r.maximum, sums |-> r.sums,
     squares |-> r.squares, count |-> r.count, has_nans |-> r.has_nans,
     variance |-> VarianceNum(r)]

\* How finalise ends: the reductions if it got to them, the Summary if it
\* got to build it.
AResult(status, reduced, summary) ==
    [status |-> status, reduced |-> reduced, summary |-> summary]

\* finalise, up to self.summary (np.sqrt raises on an x below zero, as
\* np.seterr(all="raise") is in force): how it ends, and the Summary if it gets
\* to build one.  st is the store and order the order items() yields in.
finalise(st, order) ==
    LET acc == FinaliseLoop([ok |-> TRUE, found |-> {}, missing |-> {}, mask |-> <<>>,
                             agg |-> EmptyAgg], st, order)
        rows == MaskRows(acc.agg, acc.mask)
        r == Reduce(acc.agg, rows)
    IN  IF order = <<>> THEN AResult("nodata", <<>>, <<>>)
        ELSE IF ~acc.ok THEN AResult("record", <<>>, <<>>)
        ELSE IF ~CoverageAsserts(acc.found, acc.missing) THEN AResult("coverage", <<>>, <<>>)
        ELSE IF Len(acc.mask) # NADates THEN AResult("mask", <<>>, <<>>)
        ELSE IF Cardinality(rows) # NADates - Cardinality(acc.missing) THEN AResult("rows", <<>>, <<>>)
        ELSE IF rows = {} THEN AResult("reduce", <<>>, <<>>)
        ELSE IF r.count = 0 THEN AResult("divide", <<r>>, <<>>)
        ELSE IF ~check_variance(r) THEN AResult("variance", <<r>>, <<>>)
        ELSE IF VarianceNum(r) < 0 THEN AResult("sqrt", <<r>>, <<>>)
        ELSE AResult("ok", <<r>>, <<Summary(r)>>)

Orders(S) == {o \in [1..Cardinality(S) -> S] : \A i \in DOMAIN o : \A j \in DOMAIN o : i # j => o[i] # o[j]}

\* self.tmp_storage.add([dates_ok, missing_dates, i, stats], key=dates),
\* while a finalise is still to come.
StorageAdd(key, rec) ==
    /\ afinalised < MaxFinalise
    /\ Cardinality(DOMAIN astore \cup {key}) <= MaxRecords
    /\ astore' = [k \in DOMAIN astore \cup {key} |-> IF k = key THEN rec ELSE astore[k]]
    /\ UNCHANGED <<aresult, awritten, afinalised>>
    /\ UNCHANGED frameA

\* Finalise with _write and tmp_storage.delete() ahead of check_statistics.
FinaliseWriteFirst(order, refClose) ==
    /\ afinalised < MaxFinalise
    /\ afinalised' = afinalised + 1
    /\ LET res0 == finalise(astore, order)
       IN IF res0.status = "ok"
             THEN /\ aresult' = <<IF refClose THEN res0
                                  ELSE AResult("check", res0.reduced, res0.summary)>>
                  /\ awritten' = res0.summary
                  /\ astore' = <<>>
             ELSE /\ aresult' = <<res0>>
                  /\ UNCHANGED <<awritten, astore>>
    /\ UNCHANGED frameA

\* finalise(): the reduction, then check_statistics (refClose: whether the
\* dataset's statistics are close to the Summary), _write and
\* tmp_storage.delete().
Finalise(order, refClose) ==
    /\ afinalised < MaxFinalise
    /\ afinalised' = afinalised + 1
    /\ LET res0 == finalise(astore, order)
       IN IF res0.status = "ok" /\ refClose
             THEN /\ aresult' = <<res0>>
                  /\ awritten' = res0.summary
                  /\ astore' = <<>>
             ELSE /\ aresult' = <<IF res0.status = "ok"
                                      THEN AResult("check", res0.reduced, res0.summary)
                                      ELSE res0>>
                  /\ UNCHANGED <<awritten, astore>>
    /\ UNCHANGED frameA

NextAgg ==
    \/ \E key \in AKeys : \E rec \in ARecords(key) : StorageAdd(key, rec)
    \/ \E order \in Orders(DOMAIN astore) : \E refClose \in BOOLEAN : Finalise(order, refClose)

(***************************************************************************)
(* SpecAgg: records are added to the additions' store, then finalise runs. *)
(***************************************************************************)
SpecAgg == Init /\ [][NextAgg]_vars

(***************************************************************************)
(* ChunkFilter on its own: the loops of load and run over range(total)     *)
(***************************************************************************)
\* The numbers of units tried with n parts.
Totals(n) == {0, 1, n - 1, n, n + 1, (2 * n) + 3}

\* chunk_filter = ChunkFilter(parts=parts, total=self.total), for a new
\* number of parts and of units.
Configure(n, total) ==
    /\ cfN' = n
    /\ cfTotal' = total
    /\ cfParts' = <<>>
    /\ UNCHANGED frameP

\* for i in range(0, self.total): if not chunk_filter(i): continue
\* the units the loop of part i/n does not skip.
RunFilter(i) ==
    /\ i \notin DOMAIN cfParts
    /\ cfParts' = [j \in DOMAIN cfParts \cup {i} |->
                      IF j = i THEN {x \in 0..(cfTotal - 1) : ChunkFilter(<<i, cfN>>, cfTotal, x)}
                      ELSE cfParts[j]]
    /\ UNCHANGED <<cfN, cfTotal>>
    /\ UNCHANGED frameP

NextPart ==
    \/ \E n \in 1..MaxN : \E total \in Totals(n) : Configure(n, total)
    \/ \E i \in 1..cfN : RunFilter(i)

SpecPart == Init /\ [][NextPart]_vars

(***************************************************************************)
(* StatisticsAdder._get_statistics_dates                                   *)
(***************************************************************************)
\* self.dates: the date axis of the dataset.
SDates == 0..(NSDates - 1)

\* What a caller can give as statistics_start or statistics_end: nothing,
\* or a date or period (a day, a month, a year) from lo to hi.
NoBound == <<>>

UserBounds == {NoBound} \cup {b \in SDates \X SDates : b[1] <= b[2]}

\* as_first_date(d, dates): the first instant of what the caller gave.
as_first_date(b) == b[1]

\* as_last_date(d, dates): the last instant of what the caller gave.
as_last_date(b) == b[2]

\* _get_statistics_dates(): the successive filters; the bound of the last
\* one is taken from user_statistics_start, which as_last_date cannot
\* resolve when it was not given.
get_statistics_dates(meta, user) ==
    LET d1 == {d \in SDates : d \notin meta.missing}
        d2 == {d \in d1 : d >= meta.start /\ d <= meta.end}
        d3 == IF user.start # NoBound THEN {d \in d2 : d >= as_first_date(user.start)} ELSE d2
    IN  IF user.end = NoBound THEN [ok |-> TRUE, dates |-> d3]
        ELSE IF user.start = NoBound THEN [ok |-> FALSE, dates |-> {}]
        ELSE [ok |-> TRUE, dates |-> {d \in d3 : d <= as_last_date(user.start)}]

\* The dataset as initialise left it: its missing dates and the
\* statistics_start_date and statistics_end_date of its metadata.
OpenDataset(missing, start, end) ==
    /\ sdResult = <<>>
    /\ start <= end
    /\ sdMeta' = [missing |-> missing, start |-> start, end |-> end]
    /\ sdResult' = <<>>
    /\ UNCHANGED sdUser
    /\ UNCHANGED frameD

\* StatisticsAdder(statistics_start=..., statistics_end=...).run():
\* dates = self._get_statistics_dates()
GetStatisticsDates(start, end) ==
    /\ sdResult = <<>>
    /\ sdUser' = [start |-> start, end |-> end]
    /\ sdResult' = <<get_statistics_dates(sdMeta, [start |-> start, end |-> end])>>
    /\ UNCHANGED sdMeta
    /\ UNCHANGED frameD

NextDates ==
    \/ \E missing \in SUBSET SDates : \E start \in SDates : \E end \in SDates :
          OpenDataset(missing, start, end)
    \/ \E start \in UserBounds : \E end \in UserBounds : GetStatisticsDates(start, end)

SpecDates == Init /\ [][NextDates]_vars

(***************************************************************************)
(* Properties                                                              *)
(***************************************************************************)
AllFlagged == \A g \in GroupIds : flags[g]

AllOwnedFlagged(p) == \A g \in Owned(p) : flags[g]

\* The region of group g in the array store holds the group's data.
Durable(g) == \A d \in SeqRange(GroupDates(g)) : data[d] = Val(d)

Running(w) == pc[w] \notin Ended

\* Worker w takes a step.
WorkerMoved(w) == <<pc[w], ig[w], cache[w]>>' # <<pc[w], ig[w], cache[w]>>

EventCount(e) == Cardinality({i \in DOMAIN history : history[i] = e})

\* C1: flag implies durable: whenever the completion flag of a group is
\* true, the bulk flush of that group's staged buffer into the array store
\* has been done; set_flag never comes before the flush.
C1_FlagImpliesDurable == \A g \in GroupIds : flags[g] => Durable(g)

C1_Witness ==
    \E g \in GroupIds, w \in Workers :
        /\ flags[g]
        /\ pc[w] = "crashed"
        /\ \E h \in GroupIds : ~flags[h] /\ Durable(h)

\* C2 as stated: once a flag is true it is never false in a later state,
\* over any sequence of operations, initialise included.
C2_Original == [][\A g \in GroupIds : flags[g] => flags'[g]]_vars

\* C2 amended: a flag that is true stays true over loads, kills, restarts
\* and statistics runs; the only step that resets flags is
\* InitialiserLoader.initialise, which recreates the dataset store.
C2_MonotoneUntilInitialise ==
    [][\A g \in GroupIds :
          (flags[g] /\ ~flags'[g]) => (initpc = "constructed" /\ initpc' = "none")]_vars

C2_Witness ==
    /\ \E g \in GroupIds : flags[g]
    /\ \E w \in Workers : pc[w] = "crashed"
    /\ \E w \in Workers : pc[w] = "setflag"

\* C3 as stated: a load that starts after a load with the same parts ran to
\* completion leaves the array store and the whole registry (flags, history,
\* provenance) as they were.
C3_Original ==
    [][\A w \in Workers :
          (/\ Running(w)
           /\ WorkerMoved(w)
           /\ AllOwnedFlagged(parts[w])
           /\ EventCount(Event("loading_data_end", parts[w])) > 0
           /\ "provenance_load" \in provenance)
          => UNCHANGED <<flags, history, provenance, data>>]_vars

\* C3 amended: every step of a load whose owned groups are all flagged
\* leaves the array store, the flags, the provenance names, the partial
\* records and the statistics unchanged and fetches no group; the history
\* is not unchanged: the run appends its loading_data_start and its
\* loading_data_end event, and nothing else.
C3_SecondRunSkips ==
    [][\A w \in Workers :
          (Running(w) /\ WorkerMoved(w) /\ AllOwnedFlagged(parts[w]))
          => /\ UNCHANGED <<flags, data, records, statistics>>
             /\ pc[w] = "loop" => pc'[w] \in {"loop", "end", "crashed"}
             /\ pc[w] = "start" /\ pc'[w] = "loop"
                   => history' = Append(history, Event("loading_data_start", parts[w]))
             /\ pc[w] = "end" /\ pc'[w] = "prov"
                   => history' = Append(history, Event("loading_data_end", parts[w]))
             /\ ~(pc[w] = "start" /\ pc'[w] = "loop") /\ ~(pc[w] = "end" /\ pc'[w] = "prov")
                   => history' = history]_vars

C3_Witness ==
    \E w \in Workers :
        /\ pc[w] = "done"
        /\ AllOwnedFlagged(parts[w])
        /\ EventCount(Event("loading_data_end", parts[w])) = 2
        /\ runs = 2
        /\ \A v \in Workers \ {w} : pc[v] = "idle"

\* C4: resumability: a load that was started, and is issued again with the
\* same parts whenever it was killed or failed, eventually returns with
\* every group it owns flagged; a killed or failed load does nothing more
\* until it is invoked again, and then starts from the head of the loop.
C4_Resumable ==
    /\ \A w \in Workers :
          (pc[w] # "idle") ~> (pc[w] = "done" /\ AllOwnedFlagged(parts[w]))
    /\ [][\A w \in Workers :
             (pc[w] \in {"crashed", "failed", "invalid"} /\ pc'[w] # pc[w])
             => (pc'[w] = "start" /\ ig'[w] = 0 /\ parts'[w] = parts[w])]_vars

C4_Witness ==
    \E w \in Workers :
        /\ pc[w] = "done"
        /\ faults = MaxFaults
        /\ AllOwnedFlagged(parts[w])
        /\ EventCount(Event("loading_data_start", parts[w])) >
              EventCount(Event("loading_data_end", parts[w]))

(***************************************************************************)
(* One worker that loads every group in order, with no interleaving.       *)
(***************************************************************************)
LoadGroup(st, g) ==
    LET r == GoodResult(g)
        rec == [dates |-> r.cubeDates, indexes |-> dates_to_indexes(r.cubeDates),
                stats |-> compute_statistics(r.values)]
    IN [data |-> ViewFlush(st.data, dates_to_indexes(r.cubeDates), r.values),
        records |-> TmpWrite(st.records, r.cubeDates, rec),
        flags |-> set_flag(st.flags, g)]

RECURSIVE SingleRun(_, _)
SingleRun(st, g) ==
    IF g = NGroups THEN st ELSE SingleRun(LoadGroup(st, g), g + 1)

SingleWorker ==
    SingleRun([data |-> [d \in Dates |-> Fill], records |-> <<>>,
               flags |-> [g \in GroupIds |-> FALSE]], 0)

SameAsSingleWorker ==
    /\ data = SingleWorker.data
    /\ flags = SingleWorker.flags
    /\ records = SingleWorker.records
    /\ get_aggregated(records) = get_aggregated(SingleWorker.records)

\* Two workers that own the two halves have both returned.
TwoHalvesDone ==
    /\ initpc = "none"
    /\ \E w1, w2 \in Workers :
          /\ pc[w1] = "done" /\ parts[w1] = <<1, 2>>
          /\ pc[w2] = "done" /\ parts[w2] = <<2, 2>>

\* One worker that owns every group has returned.
OneWorkerDone ==
    /\ initpc = "none"
    /\ \E w \in Workers : pc[w] = "done" /\ parts[w] = <<1, 1>>

\* C5: worker-count and order independence: when the two workers that own
\* the two halves of the groups have returned, in whatever order their
\* steps were taken, the array store, the flags (all true), the partial
\* records and the merged summary are those of one worker that loads all
\* groups; and so they are when one worker that owns all groups returned.
C5_WorkerCountIndependent == (TwoHalvesDone \/ OneWorkerDone) => SameAsSingleWorker

C5_Witness ==
    /\ TwoHalvesDone
    /\ AllFlagged
    /\ history[Len(history)].parts = <<1, 2>>
    /\ history[Len(history) - 2].event = "loading_data_start"

Renames(p) == ppc[p] = "move" /\ ppc'[p] = "idle"

EntriesOf(items, key) == {x \in items : x[1] = key}

\* C6: a put that has not reached its rename (whether it goes on, or is
\* killed) leaves what items() returns as it was; and in every state each
\* file items() opens, and each value it has yielded, is the complete
\* (key, elt) pair of a put that returned, stored under the hash of its key.
C6_PutIsAtomic ==
    /\ [][(\A p \in Writers : ~Renames(p)) => ItemsNow' = ItemsNow]_vars
    /\ [](/\ \A f \in Glob(dir) :
                /\ Complete(dir[f])
                /\ dir[f] \in finished
                /\ f = Path(dir[f][1])
          /\ seen \subseteq finished)

\* A writer was killed between open and rename, leaving a temporary file
\* that is not a whole pickle, next to the final file of the same key, and
\* a reader has since gone through the whole directory.
C6_Witness ==
    /\ \E p \in Writers :
          /\ ppc[p] = "dead"
          /\ TmpPath(Path(pkey[p]), p) \in DOMAIN dir
          /\ ~Complete(dir[TmpPath(Path(pkey[p]), p)])
          /\ Path(pkey[p]) \in DOMAIN dir
    /\ rpc = "idle"
    /\ seen # {}
    /\ seen = ItemsNow

\* C10: a put of a key whose file exists is started all the same and
\* logs the warning; the rename that ends a put leaves items() with exactly
\* one entry for that key, holding the elt of this put, and with the
\* entries of the other keys as they were.
C10_LastWriterWins ==
    /\ [](\A p \in Writers, key \in Keys, elt \in Elts :
             (ppc[p] \in {"idle", "dead"} /\ sputs < MaxPuts) => ENABLED PutBegin(p, key, elt))
    /\ [][\A p \in Writers :
             /\ (ppc[p] \in {"idle", "dead"} /\ ppc'[p] = "open" /\ Path(pkey'[p]) \in DOMAIN dir)
                   => pwarn'[p]
             /\ Renames(p) =>
                   /\ EntriesOf(ItemsNow', pkey[p]) = {<<pkey[p], pelt[p]>>}
                   /\ ItemsNow' \ EntriesOf(ItemsNow', pkey[p]) = ItemsNow \ EntriesOf(ItemsNow, pkey[p])]_vars

\* Two puts of one key with different elts have returned, the later one
\* logged the warning, items() holds its elt, and another key is stored too.
C10_Witness ==
    \E p \in Writers :
        /\ ppc[p] = "idle"
        /\ pwarn[p]
        /\ Path(pkey[p]) \in DOMAIN dir
        /\ dir[Path(pkey[p])] = <<pkey[p], pelt[p]>>
        /\ \E elt \in Elts \ {pelt[p]} : <<pkey[p], elt>> \in finished
        /\ \E key \in Keys \ {pkey[p]} : Path(key) \in DOMAIN dir

(***************************************************************************)
(* GenericAdditionsLoader.finalise properties (SpecAgg)                    *)
(***************************************************************************)
\* The records with stats, and the dates they and the other records name.
FoundRecords(st) == {k \in DOMAIN st : st[k].missing = <<>>}

FoundSet(st) == UNION {SeqRange(st[k].ok) : k \in FoundRecords(st)}

MissingSet(st) == UNION {SeqRange(st[k].missing) : k \in DOMAIN st \ FoundRecords(st)}

CoverageHolds(st) ==
    /\ \A d \in ADates : (d \in FoundSet(st)) # (d \in MissingSet(st))
    /\ FoundSet(st) \cap MissingSet(st) = {}
    /\ Cardinality(FoundSet(st)) + Cardinality(MissingSet(st)) = NADates
    /\ \A k1 \in FoundRecords(st) : \A k2 \in FoundRecords(st) :
          k1 # k2 => SeqRange(st[k1].ok) \cap SeqRange(st[k2].ok) = {}

Finalises == afinalised' # afinalised

\* C7: a finalise that builds a Summary, or writes statistics, ran on
\* records in which every target date is in exactly one of found and
\* missing, the two are disjoint and their sizes add up to the number of
\* target dates; on any other records finalise fails, builds no Summary,
\* writes nothing and leaves the records.
C7_SummaryOnlyIfCovered ==
    [][Finalises =>
          /\ (aresult'[1].summary # <<>> \/ awritten' # awritten) => CoverageHolds(astore)
          /\ ~CoverageHolds(astore) =>
                /\ aresult'[1].status \notin {"ok", "check"}
                /\ aresult'[1].summary = <<>>
                /\ awritten' = awritten
                /\ astore' = astore]_vars

\* finalise has written a Summary after a run over three records.
C7_Witness ==
    /\ afinalised = 1
    /\ aresult[1].status = "ok"
    /\ awritten # <<>>
    /\ awritten[1].count = NADates - 1

\* A finalise has failed on records that leave a target date out, and on
\* nothing else: the dates they name are found once or missing.
C7_WitnessUncovered ==
    /\ afinalised = 1
    /\ aresult[1].status = "coverage"
    /\ Cardinality(DOMAIN astore) = MaxRecords
    /\ ~CoverageHolds(astore)
    /\ FoundSet(astore) \cap MissingSet(astore) = {}

(***************************************************************************)
(* ChunkFilter properties (SpecPart)                                       *)
(***************************************************************************)
Contiguous(S) == \A x \in S : \A y \in S : \A z \in x..y : z \in S

\* C8: the parts that have been run are contiguous ranges, no unit is in
\* two of them, an earlier part is as large as a later one or one unit
\* larger; once parts 1/n .. n/n have all been run every unit of
\* range(total) is in exactly one of them.
C8_PartitionTotal ==
    /\ \A i \in DOMAIN cfParts :
          /\ Contiguous(cfParts[i])
          /\ cfParts[i] \subseteq 0..(cfTotal - 1)
          /\ \A j \in DOMAIN cfParts :
                i < j => /\ cfParts[i] \cap cfParts[j] = {}
                         /\ Cardinality(cfParts[i]) - Cardinality(cfParts[j]) \in {0, 1}
    /\ DOMAIN cfParts = 1..cfN =>
          \A x \in 0..(cfTotal - 1) : Cardinality({i \in 1..cfN : x \in cfParts[i]}) = 1

\* All the parts of the largest number of workers have been run over
\* 2n+3 units, which they do not share out evenly.
C8_Witness ==
    /\ cfN = MaxN
    /\ cfTotal = (2 * MaxN) + 3
    /\ DOMAIN cfParts = 1..cfN
    /\ Cardinality(cfParts[1]) = Cardinality(cfParts[cfN]) + 1

\* The last put of writer p has returned.
PutReturned(p) == ppc[p] = "idle" /\ pkey[p] # <<>>

\* C11: whenever the last puts of two writers were on the same key and
\* both have returned, the file of that key holds the complete (key, elt)
\* of one of the two, and at least one of the two logged the warning.
C11_ConcurrentWritersWarn ==
    \A p \in Writers : \A q \in Writers \ {p} :
        (PutReturned(p) /\ PutReturned(q) /\ pkey[p] = pkey[q])
        => /\ Path(pkey[p]) \in DOMAIN dir
           /\ dir[Path(pkey[p])] \in {<<pkey[p], pelt[p]>>, <<pkey[q], pelt[q]>>}
           /\ pwarn[p] \/ pwarn[q]

\* The records run stores: the dates of the key with a row of stats for
\* each, or the dates of the key as missing dates.
WellFormed(st) ==
    \A k \in DOMAIN st :
        \/ st[k].ok = k /\ st[k].missing = <<>> /\ st[k].stats # <<>> /\ Len(st[k].stats[1]) = Len(k)
        \/ st[k].ok = <<>> /\ st[k].missing = k /\ st[k].stats = <<>>

\* The rows of the records with stats, by (key, position in the key).
RecordRows(st) == {<<k, i>> : k \in FoundRecords(st), i \in 1..MaxKeyLen} \cap
                  {x \in AKeys \X (1..MaxKeyLen) : x[2] <= Len(x[1])}

\* The closed-form merge of the records: sums of counts, sums and squares,
\* minimum of minima, maximum of maxima, OR of has_nans.
Merged(st) ==
    LET rows == RecordRows(st)
        row(x) == st[x[1]].stats[1][x[2]]
    IN [minimum |-> SetMin({row(x).minimum : x \in rows}),
        maximum |-> SetMax({row(x).maximum : x \in rows}),
        sums |-> SumOver([x \in rows |-> row(x).sums], rows),
        squares |-> SumOver([x \in rows |-> row(x).squares], rows),
        count |-> SumOver([x \in rows |-> row(x).count], rows),
        has_nans |-> \E x \in rows : row(x).has_nans,
        variance |-> (SumOver([x \in rows |-> row(x).squares], rows)
                        * SumOver([x \in rows |-> row(x).count], rows))
                     - (SumOver([x \in rows |-> row(x).sums], rows)
                        * SumOver([x \in rows |-> row(x).sums], rows))]

\* C12: a finalise over records that cover the target dates, each date in
\* one record, ends with the Summary that merges the records: count, sums
\* and squares are the sums over the records, minimum and maximum the
\* extremes, has_nans the OR (mean and variance are sums/count and
\* squares/count - mean^2 of these).
C12_MergeArithmetic ==
    [][(Finalises /\ WellFormed(astore) /\ CoverageHolds(astore) /\ FoundRecords(astore) # {})
          => aresult'[1].summary = <<Merged(astore)>>]_vars

\* The reductions the last finalise got to.
Reduced == aresult'[1].reduced[1]

\* C13: when the variance finalise computes is below zero by no more than
\* the tolerance, finalise ends well and the Summary holds a variance (and
\* so a stdev) of 0; when it is below zero by more, finalise fails on the
\* variance check and builds no Summary.
C13_NegativeVarianceGuard ==
    [][(Finalises /\ aresult'[1].reduced # <<>> /\ Reduced.count # 0) =>
          /\ (VarianceNum(Reduced) < 0 /\ check_variance(Reduced)) =>
                /\ aresult'[1].status \in {"ok", "check"}
                /\ aresult'[1].summary # <<>>
                /\ aresult'[1].summary[1].variance = 0
          /\ ~check_variance(Reduced) =>
                /\ aresult'[1].status = "variance"
                /\ aresult'[1].summary = <<>>]_vars

(***************************************************************************)
(* _get_statistics_dates properties (SpecDates)                            *)
(***************************************************************************)
\* The dates the caller asked for.
TargetDates(meta, user) ==
    {d \in SDates :
        /\ d \notin meta.missing
        /\ d >= meta.start /\ d <= meta.end
        /\ user.start # NoBound => d >= as_first_date(user.start)
        /\ user.end # NoBound => d <= as_last_date(user.end)}

\* C14: whatever the caller's two bounds are, given or not, the call
\* returns exactly the dates of the dataset that are not missing, lie in
\* statistics_start_date..statistics_end_date, are not before the caller's
\* statistics_start and not after the caller's statistics_end.
C14_TargetDates ==
    sdResult # <<>> =>
        /\ sdResult[1].ok
        /\ sdResult[1].dates = TargetDates(sdMeta, sdUser)

(***************************************************************************)
(* Rework after a crash (Spec)                                             *)
(***************************************************************************)
\* Groups whose data is in the array store while their flag is unset and no
\* worker stands between flush() and set_flag() for them: what a kill
\* between the two statements leaves behind, and what a restart loads again.
Orphans ==
    {g \in GroupIds :
        /\ Durable(g)
        /\ ~flags[g]
        /\ ~\E w \in Workers : pc[w] = "setflag" /\ ig[w] = g}

\* Worker w leaves the head of the loop to fetch group g in this step.
Fetches(w, g) == pc[w] = "loop" /\ ig[w] = g /\ pc'[w] = "select"

\* A worker has returned: every group it owns that is flagged holds the
\* data and the partial record of a run without a kill.
AsCrashFree ==
    \A w \in Workers :
        (pc[w] = "done" /\ initpc = "none") =>
            \A g \in Owned(parts[w]) :
                flags[g] =>
                    /\ Durable(g)
                    /\ GroupDates(g) \in DOMAIN records
                    /\ records[GroupDates(g)] = SingleWorker.records[GroupDates(g)]

\* C15: bounded rework: each kill leaves at most one group that is flushed
\* and not flagged, so a restart fetches at most one flushed group again;
\* a flagged group is never fetched; and when the worker has returned the
\* array store and the partial store hold what a run without the kill holds.
C15_BoundedRework ==
    /\ [](Cardinality(Orphans) <= faults)
    /\ [][\A w \in Workers : \A g \in GroupIds : Fetches(w, g) => ~flags[g]]_vars
    /\ []AsCrashFree

\* A restarted worker has skipped a flagged group and has fetched again the
\* one group that was flushed before the kill.
C15_Witness ==
    \E w \in Workers : \E g \in GroupIds :
        /\ faults = 1
        /\ pc[w] = "stage" /\ ig[w] = g
        /\ Orphans = {g}
        /\ \E h \in Owned(parts[w]) : h < g /\ flags[h]
        /\ \A v \in Workers \ {w} : ~Running(v)

(***************************************************************************)
(* Failures of one group's load (Spec)                                     *)
(***************************************************************************)
\* Worker w holds a result that passed the assertions of load and load_result.
Staging(w) == pc[w] \in {"stage", "stats", "flush", "setflag"}

\* The answer of the provider to worker w breaks the contract and the
\* attempt ends in this step.
ContractFailure(w) == pc[w] = "select" /\ pc'[w] = "failed"

\* C16: a result whose dates, or whose cube's valid_datetime coordinates,
\* differ from the requested group is never staged: the attempt fails
\* with an empty cache and leaves the array store, the partial store and
\* the flags as they were.
C16_ContractViolationFatal ==
    /\ [](\A w \in Workers :
            Staging(w) => /\ res[w].dates = GroupDates(ig[w])
                          /\ res[w].cubeDates = GroupDates(ig[w]))
    /\ [][\A w \in Workers :
            ContractFailure(w) =>
                /\ cache'[w] = <<>>
                /\ data' = data
                /\ records' = records
                /\ flags' = flags]_vars

\* A load has failed on the provider's answer after an earlier group was
\* loaded: the stores are not empty and the failed group is not flagged.
C16_Witness ==
    \E w \in Workers :
        /\ pc[w] = "failed"
        /\ faults = 1
        /\ \E g \in Owned(parts[w]) : flags[g] /\ Durable(g)
        /\ \E g \in Owned(parts[w]) : ~flags[g] /\ ~Durable(g)
        /\ records # <<>>

\* check_data_values rejects a cubelet of worker w in this step.
ValidationFailure(w) == pc[w] = "stage" /\ pc'[w] = "invalid"

\* C17: every value in a cache buffer has passed check_data_values, so
\* no NaN reaches the array store or a partial record; the step in which
\* the validation of a cubelet fails writes nothing to the array store,
\* writes no partial record and leaves the flags as they were.
C17_InvalidDataNotPublished ==
    /\ [](/\ \A w \in Workers : \A i \in DOMAIN cache[w] : check_data_values(cache[w][i])
          /\ \A d \in Dates : data[d] # NaN)
    /\ [][\A w \in Workers :
            ValidationFailure(w) =>
                /\ ~check_data_values(res[w].values[Len(cache[w]) + 1])
                /\ data' = data
                /\ records' = records
                /\ flags' = flags]_vars

\* A load was aborted by check_data_values on the last cubelet of a
\* group; the group is not in the array store, has no
\* partial record and no flag, while an earlier group has all three.
C17_Witness ==
    \E w \in Workers : \E g \in Owned(parts[w]) :
        /\ pc[w] = "invalid"
        /\ ~flags[g] /\ ~Durable(g)
        /\ GroupDates(g) \notin DOMAIN records
        /\ \A d \in SeqRange(GroupDates(g)) : data[d] = Fill
        /\ \E h \in Owned(parts[w]) :
              h < g /\ flags[h] /\ Durable(h) /\ GroupDates(h) \in DOMAIN records
        /\ \A h \in GroupIds : h > g => ~flags[h]

(***************************************************************************)
(* Coverage of a complete run (Spec)                                       *)
(***************************************************************************)
\* The files of the additions' storage whose record lists date d.
FilesListing(d) ==
    {f \in Glob(addStore) :
        d \in SeqRange(addStore[f][2].ok) \cup SeqRange(addStore[f][2].missing)}

AddFound == {d \in Dates : \E f \in Glob(addStore) : d \in SeqRange(addStore[f][2].ok)}

AddMissing == {d \in Dates : \E f \in Glob(addStore) : d \in SeqRange(addStore[f][2].missing)}

\* run() has returned for each of the parts 1/n .. n/n.
AllPartsRun(n) == {<<i, n>> : i \in 1..n} \subseteq addDone

\* C18: when the loads of all n parts have returned every flag is true; when
\* run() has returned for all n parts the storage holds exactly one record
\* for each target date, which lists the date as found or as missing, the
\* found and the missing dates are disjoint and together number the target
\* dates.
C18_CompleteRunCoverage ==
    /\ (TwoHalvesDone \/ OneWorkerDone) => AllFlagged
    /\ \A n \in 1..MaxParts :
          AllPartsRun(n) =>
              /\ \A d \in Dates : Cardinality(FilesListing(d)) = 1
              /\ AddFound \cap AddMissing = {}
              /\ Cardinality(AddFound) + Cardinality(AddMissing) = NDates

\* The load of all groups has returned and run() has returned for the two
\* halves of the dates, one of which has a missing date.
C18_Witness ==
    /\ OneWorkerDone
    /\ AllFlagged
    /\ AllPartsRun(2)
    /\ AddMissing # {}
    /\ AddFound # {}

(***************************************************************************)
(* InitialiserLoader.initialise (Spec)                                     *)
(***************************************************************************)
\* initialise() returns in this step.
InitialiseReturns == initpc = "constructed" /\ initpc' = "none"

\* initialise() returns in this step having created the partial store.
InitialiseSucceeds == InitialiseReturns /\ ~tmpExists /\ tmpExists'

\* Event e is in the history before event f.
Before(h, e, f) ==
    \E i, j \in DOMAIN h : i < j /\ h[i].event = e /\ h[j].event = f

\* C19: when initialise returns successfully the registry has one flag per
\* group, all false, the partial store exists and holds no record, and the
\* history has "tmp_statistics_initialised" and then "init finished",
\* whatever the dataset held before.
C19_InitialisePostcondition ==
    [][InitialiseSucceeds =>
          /\ DOMAIN flags' = GroupIds
          /\ \A g \in GroupIds : ~flags'[g]
          /\ tmpExists'
          /\ records' = <<>>
          /\ Before(history', "tmp_statistics_initialised", "init finished")]_vars

\* initialise has returned on a dataset that was fully built before, the
\* additions having run on it: no flag is set, the array is empty again and
\* the partial store is empty.
C19_Witness ==
    /\ initpc = "none"
    /\ addDone # {}
    /\ runs = MaxRuns
    /\ \A g \in GroupIds : ~flags[g]
    /\ \A d \in Dates : data[d] = Fill
    /\ tmpExists /\ records = <<>>
    /\ history = InitHistory

OrphanFiles == {f \in DOMAIN dir : f[2] = "pickle.tmp" /\ ppc[f[3]] = "dead"}

\* C21: a call of items() on a directory in which no put has completed,
\* whatever else it holds (provenance.json, temporary files), fails with
\* the no-data condition and yields nothing; on a directory in which a put
\* has completed it does not fail; and finalise over no record builds no
\* Summary.
C21_EmptyStoreIsError ==
    /\ [][ItemsGlob =>
             /\ (rpc' = "nodata") <=> (finished = {})
             /\ rpc' = "nodata" => (seen' = {} /\ rfiles' = {})]_vars
    /\ [](rpc = "nodata" => seen = {})
    /\ [](finalise(<<>>, <<>>).status = "nodata" /\ finalise(<<>>, <<>>).summary = <<>>)

\* items() has failed on a directory that holds provenance.json and the
\* temporary file of a killed writer, and no record.
C21_Witness ==
    /\ rpc = "nodata"
    /\ finished = {}
    /\ ProvenancePath \in DOMAIN dir
    /\ OrphanFiles # {}

\* The records are those run() stores: one record per date, under the key
\* that holds that date alone, and they cover the target dates.
AsRunStores(st) ==
    /\ WellFormed(st)
    /\ CoverageHolds(st)
    /\ \A k \in DOMAIN st : Len(k) = 1

\* The rows finalise reduces over when items() yields in the given order.
KeptRows(st, order) ==
    LET acc == FinaliseLoop([ok |-> TRUE, found |-> {}, missing |-> {}, mask |-> <<>>,
                             agg |-> EmptyAgg], st, order)
    IN MaskRows(acc.agg, acc.mask)

\* C22: over the records run() stores, whatever order items() yields them
\* in, finalise reduces over exactly the rows of the found dates and ends
\* in the same way with the same Summary.
C22_OrderIndependent ==
    AsRunStores(astore) =>
        \A o1 \in Orders(DOMAIN astore) :
            /\ KeptRows(astore, o1) = FoundSet(astore)
            /\ \A o2 \in Orders(DOMAIN astore) :
                  finalise(astore, o1) = finalise(astore, o2)

\* Over records none of which is of a missing date the order does not matter.
C22_AllFoundProbe ==
    (AsRunStores(astore) /\ MissingSet(astore) = {}) =>
        \A o1 \in Orders(DOMAIN astore) :
            /\ KeptRows(astore, o1) = FoundSet(astore)
            /\ \A o2 \in Orders(DOMAIN astore) :
                  finalise(astore, o1) = finalise(astore, o2)

(***************************************************************************)
(* The loop of load, group by group (Spec)                                 *)
(***************************************************************************)
\* Worker w stands at the head of the loop before a group it owns whose
\* flag is set.
AtFlagged(w) ==
    /\ pc[w] = "loop"
    /\ ig[w] < NGroups
    /\ ChunkFilter(parts[w], NGroups, ig[w])
    /\ flags[ig[w]]

\* C23: the step a worker takes at an owned group whose flag is set goes
\* on to the next group: no select, no cache buffer, nothing written to
\* the array store or the partial store, no flag set again.
C23_SkipFlagged ==
    [][\A w \in Workers :
          (AtFlagged(w) /\ WorkerMoved(w) /\ pc'[w] # "crashed") =>
              /\ pc'[w] = "loop"
              /\ ig'[w] = ig[w] + 1
              /\ res'[w] = NoResult
              /\ cache'[w] = <<>>
              /\ UNCHANGED <<flags, data, records, history>>]_vars

\* A worker in its second run, its first having returned, has passed over
\* the first group it owns.
C23_Witness ==
    \E w \in Workers :
        /\ pc[w] = "loop"
        /\ ig[w] >= 1
        /\ \E g \in Owned(parts[w]) : g < ig[w]
        /\ AllOwnedFlagged(parts[w])
        /\ EventCount(Event("loading_data_start", parts[w])) = 2
        /\ EventCount(Event("loading_data_end", parts[w])) = 1
        /\ faults = 0
        /\ \A v \in Workers \ {w} : pc[v] = "idle"

(***************************************************************************)
(* The history as a marker of the phases (Spec)                            *)
(***************************************************************************)
\* Every "loading_data_end" of the history records parts whose groups are
\* all flagged and follows a "loading_data_start" with the same parts.
EndMarksLoaded ==
    \A j \in DOMAIN history :
        history[j].event = "loading_data_end" =>
            /\ AllOwnedFlagged(history[j].parts)
            /\ \E i \in 1..(j - 1) : history[i] = Event("loading_data_start", history[j].parts)

\* The step of worker w in which its load is killed or fails.
LoadAborts(w) ==
    pc[w] \notin Ended /\ pc'[w] \in {"crashed", "failed", "invalid"}

\* The history after the step is the history before it, with entries
\* appended or none.
Appended ==
    /\ Len(history') >= Len(history)
    /\ SubSeq(history', 1, Len(history)) = history

\* C24 as stated: loading_data_end marks a loaded partition in every
\* reachable state, an aborted load appends nothing, and the history is
\* only ever appended to.
C24_Original ==
    /\ []EndMarksLoaded
    /\ [][\A w \in Workers : LoadAborts(w) => history' = history]_vars
    /\ [][Appended]_vars

\* C24 amended: the same, except that InitialiserLoader.initialise, which
\* recreates the dataset store, replaces the history by that of a new
\* dataset.
C24_HistoryMarksPhases ==
    /\ []EndMarksLoaded
    /\ [][\A w \in Workers : LoadAborts(w) => history' = history]_vars
    /\ [][Appended \/ (initpc = "constructed" /\ initpc' = "none" /\ history' = InitHistory)]_vars

\* The load of one half has returned and its end event is in the history,
\* while the load of the other half was killed and left no end event.
C24_Witness ==
    \E w1, w2 \in Workers :
        /\ pc[w1] = "done" /\ parts[w1] = <<1, 2>>
        /\ pc[w2] = "crashed" /\ parts[w2] = <<2, 2>>
        /\ EventCount(Event("loading_data_end", <<1, 2>>)) = 1
        /\ EventCount(Event("loading_data_start", <<2, 2>>)) = 1
        /\ EventCount(Event("loading_data_end", <<2, 2>>)) = 0
        /\ \E g \in Owned(<<2, 2>>) : flags[g]

\* Worker w is between select() and set_flag() for a group.
Processing(w) == pc[w] \in {"select", "stage", "stats", "flush", "setflag"}

\* What the stores hold for group g: its flag, its region of the array
\* store and its partial record.
GroupState(g) ==
    <<flags[g],
      [d \in SeqRange(GroupDates(g)) |-> data[d]],
      IF GroupDates(g) \in DOMAIN records THEN <<records[GroupDates(g)]>> ELSE <<>>>>

\* C25: a worker fetches and stages only groups that the chunk filter of
\* its parts lets through, and a step of a running load changes the flag,
\* the array-store region and the partial record of no other group; two
\* workers whose parts do not overlap are never at work on the same group.
C25_OwnPartitionOnly ==
    /\ [](\A w \in Workers : Processing(w) => ig[w] \in Owned(parts[w]))
    /\ [](\A w1 \in Workers : \A w2 \in Workers \ {w1} :
            (Processing(w1) /\ Processing(w2) /\ Owned(parts[w1]) \cap Owned(parts[w2]) = {})
                => ig[w1] # ig[w2])
    /\ [][\A w \in Workers :
            (Running(w) /\ WorkerMoved(w)) =>
                \A g \in GroupIds \ Owned(parts[w]) : GroupState(g)' = GroupState(g)]_vars

\* The workers of the two halves are both about to flush, each a group of
\* its own half, and both halves already hold a flagged group.
C25_Witness ==
    \E w1, w2 \in Workers :
        /\ parts[w1] = <<1, 2>> /\ parts[w2] = <<2, 2>>
        /\ pc[w1] = "flush" /\ pc[w2] = "flush"
        /\ \E g \in Owned(<<1, 2>>) : flags[g]
        /\ \E g \in Owned(<<2, 2>>) : flags[g]

\* The step of worker w goes on with its load.
Proceeds(w) ==
    /\ Running(w)
    /\ WorkerMoved(w)
    /\ pc'[w] \notin {"crashed", "failed", "invalid"}

\* The partial record of the group worker w is at work on.
OwnRecord(w) ==
    [dates |-> GroupDates(ig[w]), indexes |-> dates_to_indexes(GroupDates(ig[w])),
     stats |-> compute_statistics(cache[w])]

\* C26: for each group a load processes the steps come in the order:
\* every cubelet into the cache, the statistics of the cache written as
\* the partial record, the flush, the flag. The array store is not
\* written while cubelets are staged, and the only step of a load that
\* writes it is the flush, once per processed group.
C26_StepOrder ==
    [][\A w \in Workers :
          Proceeds(w) =>
              /\ pc[w] = "stage" =>
                    /\ pc'[w] \in {"stage", "stats"}
                    /\ (pc'[w] = "stats") <=> (Len(cache'[w]) = GroupLen)
                    /\ UNCHANGED <<data, records, flags>>
              /\ pc[w] = "stats" =>
                    /\ pc'[w] = "flush"
                    /\ Len(cache[w]) = GroupLen
                    /\ GroupDates(ig[w]) \in DOMAIN records'
                    /\ records'[GroupDates(ig[w])] = OwnRecord(w)
                    /\ UNCHANGED <<data, flags>>
              /\ pc[w] = "flush" =>
                    /\ pc'[w] = "setflag"
                    /\ GroupDates(ig[w]) \in DOMAIN records
                    /\ \A i \in 1..GroupLen : data'[GroupDates(ig[w])[i]] = cache[w][i]
                    /\ UNCHANGED <<records, flags>>
              /\ pc[w] = "setflag" =>
                    /\ pc'[w] = "loop"
                    /\ flags'[ig[w]]
                    /\ UNCHANGED <<data, records>>
              /\ data' # data => pc[w] = "flush"]_vars

\* A worker in its first run has staged, recorded and flushed its second
\* group and is about to set its flag.
C26_Witness ==
    \E w \in Workers :
        /\ pc[w] = "setflag"
        /\ ig[w] = 1
        /\ flags[0] /\ ~flags[1]
        /\ Durable(1)
        /\ GroupDates(1) \in DOMAIN records
        /\ Len(cache[w]) = GroupLen
        /\ faults = 0 /\ runs = 1

\* C27: in every reachable state every group whose flag is true has a
\* partial record for its dates in the partial store.
C27_FlagImpliesRecord ==
    \A g \in GroupIds : flags[g] => GroupDates(g) \in DOMAIN records

\* While no InitialiserLoader has been constructed since the groups were
\* loaded, every flagged group has its partial record.
C27_LoadsOnlyProbe ==
    [][(initpc = "none" /\ initpc' = "none") =>
          \A g \in GroupIds :
              (flags[g] => GroupDates(g) \in DOMAIN records)
                  => (flags'[g] => GroupDates(g) \in DOMAIN records')]_vars

(***************************************************************************)
(* finalise that fails (SpecAgg)                                           *)
(***************************************************************************)
\* C28: a finalise that fails at any of its checks, the comparison with
\* the statistics of the dataset included, writes no statistics (and with
\* them no "compute_statistics_end", which _write appends after the
\* arrays) and leaves every record in the store; the store is emptied only
\* by a finalise that has written its Summary.
C28_FailedFinaliseChangesNothing ==
    [][Finalises =>
          /\ aresult'[1].status # "ok" => (awritten' = awritten /\ astore' = astore)
          /\ astore' # astore =>
                /\ aresult'[1].status = "ok"
                /\ aresult'[1].summary # <<>>
                /\ awritten' = aresult'[1].summary
                /\ astore' = <<>>]_vars

\* A finalise over records that cover the target dates has built its
\* Summary and failed the comparison with the statistics of the dataset:
\* nothing is written and the records are still there.
C28_Witness ==
    /\ afinalised = 1
    /\ aresult[1].status = "check"
    /\ aresult[1].summary # <<>>
    /\ awritten = <<>>
    /\ CoverageHolds(astore)
    /\ DOMAIN astore # {}

(***************************************************************************)
(* TrimEdge (data/masked.py): the mask of a trimmed regular grid           *)
(***************************************************************************)
\* forward.field_shape of a regular grid, and the edge arguments: an
\* integer (a list of one element here), a list of four integers, a list
\* of another length.
FieldShapes == (1..MaxSide) \X (1..MaxSide)

EdgeArgs == UNION {[1..n -> 0..MaxEdge] : n \in {1, 2, 4}}

\* if isinstance(edge, int): self.edge = [edge] * 4
\* elif len(edge) == 4: self.edge = edge
EdgeList(edge) == IF Len(edge) = 1 THEN <<edge[1], edge[1], edge[1], edge[1]>> ELSE edge

\* Where a slice that starts at i begins on an axis of length n: a
\* negative i counts from the end, and -0 is 0.
SliceStart(i, n) == IF i < 0 THEN (IF n + i < 0 THEN 0 ELSE n + i) ELSE Min2(i, n)

\* The rows, or columns, of mask[a:b] on an axis of length n, b >= 0.
SliceTo(a, b, n) == {x \in 0..(n - 1) : x >= SliceStart(a, n) /\ x < Min2(b, n)}

\* The rows, or columns, of mask[a:] on an axis of length n.
SliceFrom(a, n) == {x \in 0..(n - 1) : x >= SliceStart(a, n)}

\* mask = np.full(shape, True); the four assignments of False.
TrimMask(shape, e) ==
    [cell \in (0..(shape[1] - 1)) \X (0..(shape[2] - 1)) |->
        /\ cell[1] \notin SliceTo(0, e[1], shape[1])
        /\ cell[1] \notin SliceFrom(0 - e[2], shape[1])
        /\ cell[2] \notin SliceTo(0, e[3], shape[2])
        /\ cell[2] \notin SliceFrom(0 - e[4], shape[2])]

\* mask.flatten(): row-major; np.count_nonzero(self.mask)
Flatten(shape, m) ==
    [k \in 1..(shape[1] * shape[2]) |-> m[<<(k - 1) \div shape[2], (k - 1) % shape[2]>>]]

CountNonzero(flat) == Cardinality({k \in DOMAIN flat : flat[k]})

\* TrimEdge.field_shape
TrimFieldShape(shape, e) == <<shape[1] - (e[1] + e[2]), shape[2] - (e[3] + e[4])>>

\* TrimEdge.__init__, with Masked.shape[-1] and field_shape of the object.
TrimEdge(shape, edge) ==
    IF Len(edge) \notin {1, 4} THEN [error |-> "edge"]
    ELSE LET e == EdgeList(edge)
         IN IF e[1] + e[2] >= shape[1] THEN [error |-> "first"]
            ELSE IF e[3] + e[4] >= shape[2] THEN [error |-> "second"]
            ELSE [error |-> "",
                  mask |-> Flatten(shape, TrimMask(shape, e)),
                  points |-> CountNonzero(Flatten(shape, TrimMask(shape, e))),
                  field_shape |-> TrimFieldShape(shape, e)]

\* A TrimEdge is constructed on a dataset.
TrimConstruct(shape, edge) ==
    /\ trimOut = <<>>
    /\ trimIn' = <<shape, edge>>
    /\ trimOut' = <<TrimEdge(shape, edge)>>
    /\ UNCHANGED frameT

NextTrim == \E shape \in FieldShapes : \E edge \in EdgeArgs : TrimConstruct(shape, edge)

SpecTrim == Init /\ [][NextTrim]_vars

\* The grid points the declared trimming keeps, as positions of the
\* flattened grid.
DeclaredKept(shape, e) ==
    {k \in 1..(shape[1] * shape[2]) :
        /\ (k - 1) \div shape[2] >= e[1] /\ (k - 1) \div shape[2] < shape[1] - e[2]
        /\ (k - 1) % shape[2] >= e[3] /\ (k - 1) % shape[2] < shape[2] - e[4]}

\* The edge argument is one the claim calls accepted for the shape.
Accepted(shape, edge) ==
    /\ Len(edge) \in {1, 4}
    /\ EdgeList(edge)[1] + EdgeList(edge)[2] < shape[1]
    /\ EdgeList(edge)[3] + EdgeList(edge)[4] < shape[2]

\* C29: for every field shape and every accepted edge the constructor
\* succeeds, its mask keeps exactly the points with row in [e0, nx-e1) and
\* column in [e2, ny-e3), and the number of kept points is the product of
\* field_shape and is not zero.
C29_TrimEdgeMask ==
    (trimOut # <<>> /\ Accepted(trimIn[1], trimIn[2])) =>
        /\ trimOut[1].error = ""
        /\ {k \in DOMAIN trimOut[1].mask : trimOut[1].mask[k]}
              = DeclaredKept(trimIn[1], EdgeList(trimIn[2]))
        /\ trimOut[1].points = trimOut[1].field_shape[1] * trimOut[1].field_shape[2]
        /\ trimOut[1].points # 0

\* With at least one row trimmed at the end of each dimension the mask is
\* the declared one.
C29_TrailingTrimProbe ==
    (/\ trimOut # <<>>
     /\ Accepted(trimIn[1], trimIn[2])
     /\ EdgeList(trimIn[2])[2] > 0
     /\ EdgeList(trimIn[2])[4] > 0) =>
        /\ trimOut[1].error = ""
        /\ {k \in DOMAIN trimOut[1].mask : trimOut[1].mask[k]}
              = DeclaredKept(trimIn[1], EdgeList(trimIn[2]))
        /\ trimOut[1].points = trimOut[1].field_shape[1] * trimOut[1].field_shape[2]
        /\ trimOut[1].points # 0

====
